---- MODULE Spec2Model ----
(***************************************************************************)
(* Lifeboat (src/app.js): chat-export parsers, conversation selection and  *)
(* the sampling / chunking / extraction pipeline, as a state machine.      *)
(*                                                                         *)
(* Strings are run-length encoded: a string is a sequence of runs          *)
(* [c, id, n], n >= 1 characters of one kind.  c = "sp" is a blank, "nl" a *)
(* newline, "txt" non-blank message content (id tells whose), "lit" one of *)
(* the program's string literals (id tells which).  Adjacent runs of the   *)
(* same kind are merged, so equal strings have equal encodings.  length,   *)
(* trim, split('\n\n') and join are computed on the runs as JavaScript     *)
(* computes them on the characters.                                        *)
(***************************************************************************)
EXTENDS Integers, Sequences, FiniteSets, TLC

VARIABLES
    data,               \* the file content handed to the last upload (input)
    conversations,      \* app.js:22
    selectedConvoIds,   \* app.js:23
    uploadStatus,       \* class of the 'upload-status' element: none/success/error
    rendered,           \* the ids of the checkboxes in the 'conversation-list' element
    apiKey,             \* app.js:21
    extractionAborted,  \* app.js:26
    companionProfile,   \* app.js:24
    runs,               \* the startExtraction invocations so far: each one's locals
    library,            \* the 'profiles' object store of IndexedDB, keyPath 'id'
    issued,             \* how many ids crypto.randomUUID has returned
    exported,           \* the file of the last download from the library
    imports,            \* how many files have been picked for import
    picked,             \* the last file picked for import, and the user's answers
    dialog,             \* the confirm dialog importProfile is waiting at, and what it lists
    chatHistory,        \* app.js:25
    chatRequests        \* the sendMessage invocations so far: each one's request

vars == <<data, conversations, selectedConvoIds, uploadStatus, rendered,
          apiKey, extractionAborted, companionProfile, runs,
          library, issued, exported, imports, picked, dialog,
          chatHistory, chatRequests>>

pipelineVars == <<apiKey, extractionAborted, companionProfile, runs>>

storeVars == <<library, issued, exported, imports, picked, dialog>>

chatVars == <<chatHistory, chatRequests>>

-----------------------------------------------------------------------------
(* Bounds of the model.                                                    *)

MaxNodes == 4        \* nodes in one conversation mapping
MaxConvos == 3       \* conversations in one tree export
MaxTurns == 2        \* entries in one flat (turn / message) export
MaxMsgs == 11        \* messages in one export of the sampling / chunking specification
MaxRuns == 1         \* startExtraction invocations in one behaviour
MaxRunMsgs == 3      \* messages (= chunks) in one export of the extraction specification
MaxReplyMsgs == 2    \* messages (= chunks) in one export of the reply specification
MaxImports == 2      \* files picked for import in one behaviour
MaxLines == 4        \* lines in one text log
MaxChats == 2        \* sendMessage invocations in one behaviour
MaxCandidates == 2   \* candidates of one Character.AI turn
MaxDepth == 3        \* properties and indexes from an imported profile down to one of its strings
MaxStarts == 2       \* startExtraction invocations in one behaviour of the concurrent-run specification

-----------------------------------------------------------------------------
(* Strings.                                                                *)

Run(c, id, n) == [c |-> c, id |-> id, n |-> n]

Sp(n) == <<Run("sp", 0, n)>>
Nl(n) == <<Run("nl", 0, n)>>
Txt(id, n) == <<Run("txt", id, n)>>

IsWS(r) == r.c \in {"sp", "nl"}

RECURSIVE StrLen(_)
StrLen(s) == IF s = <<>> THEN 0 ELSE Head(s).n + StrLen(Tail(s))

\* s + t
Cat(s, t) ==
    IF s = <<>> THEN t
    ELSE IF t = <<>> THEN s
    ELSE LET a == s[Len(s)]
             b == t[1]
         IN  IF a.c = b.c /\ a.id = b.id
             THEN SubSeq(s, 1, Len(s) - 1) \o <<Run(a.c, a.id, a.n + b.n)>> \o Tail(t)
             ELSE s \o t

RECURSIVE TrimStart(_)
TrimStart(s) == IF s # <<>> /\ IsWS(Head(s)) THEN TrimStart(Tail(s)) ELSE s

RECURSIVE TrimEnd(_)
TrimEnd(s) ==
    IF s # <<>> /\ IsWS(s[Len(s)]) THEN TrimEnd(SubSeq(s, 1, Len(s) - 1)) ELSE s

\* String.prototype.trim
Trim(s) == TrimEnd(TrimStart(s))

\* pieces.join(sep)
RECURSIVE Join(_, _)
Join(pieces, sep) ==
    IF pieces = <<>> THEN <<>>
    ELSE IF Len(pieces) = 1 THEN pieces[1]
    ELSE Cat(pieces[1], Cat(sep, Join(Tail(pieces), sep)))

\* s.split('\n\n'): the matches are taken left to right without overlap, so a
\* run of k newlines holds k \div 2 separators and leaves k % 2 newlines at the
\* start of the next piece.
RECURSIVE SplitAcc(_, _, _)
SplitAcc(s, cur, out) ==
    IF s = <<>> THEN Append(out, cur)
    ELSE LET r == Head(s) IN
         IF r.c = "nl" /\ r.n >= 2
         THEN LET d == r.n \div 2
                  empties == [k \in 1..(d - 1) |-> <<>>]
                  start == IF r.n % 2 = 1 THEN Nl(1) ELSE <<>>
              IN  SplitAcc(Tail(s), start, Append(out, cur) \o empties)
         ELSE SplitAcc(Tail(s), Cat(cur, <<r>>), out)

SplitBlank(s) == SplitAcc(s, <<>>, <<>>)

\* The ids of the message content a string holds.
TxtIds(s) == {s[k].id : k \in {j \in 1..Len(s) : s[j].c = "txt"}}

-----------------------------------------------------------------------------
(* Sequences.                                                              *)

RECURSIVE Flatten(_)
Flatten(ss) == IF ss = <<>> THEN <<>> ELSE Head(ss) \o Flatten(Tail(ss))

\* Array.prototype.sort is stable: elements the comparator calls equal keep
\* their order.  Insertion sort, by timestamp ascending.
RECURSIVE InsertByTimestamp(_, _)
InsertByTimestamp(sorted, x) ==
    IF sorted = <<>> THEN <<x>>
    ELSE IF sorted[Len(sorted)].timestamp <= x.timestamp THEN Append(sorted, x)
    ELSE Append(InsertByTimestamp(SubSeq(sorted, 1, Len(sorted) - 1), x),
                sorted[Len(sorted)])

\* messages.sort((a, b) => a.timestamp - b.timestamp)
RECURSIVE SortByTimestamp(_)
SortByTimestamp(messages) ==
    IF messages = <<>> THEN <<>>
    ELSE InsertByTimestamp(SortByTimestamp(SubSeq(messages, 1, Len(messages) - 1)),
                           messages[Len(messages)])

RECURSIVE TextSize(_)
TextSize(messages) ==
    IF messages = <<>> THEN 0 ELSE StrLen(Head(messages).text) + TextSize(Tail(messages))

-----------------------------------------------------------------------------
(* Parsed JSON.  A file is an array, or an object one of whose properties  *)
(* (key) holds the array.  An entry carries the set `has` of the           *)
(* properties it defines; a property outside `has` is undefined whatever   *)
(* the record holds for it.  Times are numbers, 0 for a missing (falsy)    *)
(* one.                                                                    *)

NoEntry ==
    [has |-> {}, mapping |-> <<>>, create_time |-> 0, update_time |-> 0,
     is_human |-> FALSE, candidates |-> <<>>, primary_candidate_id |-> 0,
     text |-> <<>>, mes |-> <<>>, mesIsString |-> TRUE, is_user |-> FALSE,
     send_date |-> 0, role |-> "", timestamp |-> 0]

ArrayFile(items) == [top |-> "array", key |-> "", items |-> items]
ObjectFile(key, items) == [top |-> "object", key |-> key, items |-> items]

NoFile == ArrayFile(<<>>)

\* data[0]?.p is neither undefined nor (for the truthiness tests) falsy
FirstHas(d, p) == d.top = "array" /\ Len(d.items) > 0 /\ p \in d.items[1].has

-----------------------------------------------------------------------------
(* parseConversations: the tree-structured export.                         *)

\* NextChild gone wrong: the first branch instead of the last
NextChildFirst(children) ==
    IF Len(children) > 0 THEN children[1] ELSE 0

\* Follow last child (most recent branch); 0 stands for null
NextChild(children) ==
    IF Len(children) > 0 THEN children[Len(children)] ELSE 0

\* The root: the first node, in Object.entries order, with no parent or with
\* a parent that is not in the mapping; 0 (null) when there is none.
RECURSIVE FindRoot(_, _)
FindRoot(mapping, k) ==
    IF k > Len(mapping) THEN 0
    ELSE IF mapping[k].parent = 0 \/ mapping[k].parent \notin DOMAIN mapping THEN k
    ELSE FindRoot(mapping, k + 1)

\* The ids the loop visits, in order.  The loop has no bound of its own; fuel
\* cuts it after one step more than the mapping has nodes.
RECURSIVE WalkPath(_, _, _)
WalkPath(mapping, currentId, fuel) ==
    IF currentId = 0 \/ fuel = 0 THEN <<>>
    ELSE IF currentId \notin DOMAIN mapping THEN <<>>
    ELSE <<currentId>>
         \o WalkPath(mapping, NextChild(mapping[currentId].children), fuel - 1)

\* The ids the loop visits in its first Len(mapping) + 1 rounds
Visits(mapping) == WalkPath(mapping, FindRoot(mapping, 1), Len(mapping) + 1)

\* The loop comes to an end.  Its only state is currentId, so a walk that is
\* still going after as many rounds as the mapping has nodes is back on a
\* node it has visited, and goes round for ever.
WalkEnds(mapping) == Len(Visits(mapping)) <= Len(mapping)

\* parts.filter(p => typeof p === 'string').join('\n').trim()
RECURSIVE StringParts(_)
StringParts(parts) ==
    IF parts = <<>> THEN <<>>
    ELSE (IF Head(parts).isString THEN <<Head(parts).s>> ELSE <<>>)
         \o StringParts(Tail(parts))

PartsText(parts) == Trim(Join(StringParts(parts), Nl(1)))

\* msg.create_time || convo.create_time || 0
MessageTime(msg, convo) ==
    IF msg.create_time # 0 THEN msg.create_time ELSE convo.create_time

\* The message a visited node contributes: none, or one.
NodeMessages(node, convo) ==
    IF ~node.message.present \/ ~node.message.hasContent THEN <<>>
    ELSE LET msg == node.message
             text == PartsText(msg.parts)
         IN  IF text # <<>> /\ msg.role \in {"user", "assistant"}
             THEN <<[role |-> msg.role, text |-> text,
                     timestamp |-> MessageTime(msg, convo)]>>
             ELSE <<>>

RECURSIVE PathMessages(_, _)
PathMessages(path, convo) ==
    IF path = <<>> THEN <<>>
    ELSE NodeMessages(convo.mapping[Head(path)], convo)
         \o PathMessages(Tail(path), convo)

\* ConvoId gone wrong: the same id for every conversation
ConvoIdZero(idx) == 0

\* The id given to the conversation at index idx (from 0) of the export
ConvoId(idx) == idx

\* The body of data.map((convo, idx) => ...): one conversation record
ParseOneConversation(convo, idx) ==
    LET mapping == IF "mapping" \in convo.has THEN convo.mapping ELSE <<>>
        rootId == FindRoot(mapping, 1)
        path == WalkPath(mapping, rootId, Len(mapping) + 1)
        messages == SortByTimestamp(PathMessages(path, convo))
    IN  [id |-> ConvoId(idx),
         created |-> convo.create_time,
         updated |-> convo.update_time,
         messages |-> messages,
         messageCount |-> Len(messages),
         textSize |-> TextSize(messages)]

\* b.updated || b.created || 0
Recency(c) == IF c.updated # 0 THEN c.updated ELSE c.created

\* .sort((a, b) => recency(b) - recency(a)): stable, most recent first
RECURSIVE InsertByRecency(_, _)
InsertByRecency(sorted, x) ==
    IF sorted = <<>> THEN <<x>>
    ELSE IF Recency(sorted[Len(sorted)]) >= Recency(x) THEN Append(sorted, x)
    ELSE Append(InsertByRecency(SubSeq(sorted, 1, Len(sorted) - 1), x),
                sorted[Len(sorted)])

RECURSIVE SortByRecency(_)
SortByRecency(cs) ==
    IF cs = <<>> THEN <<>>
    ELSE InsertByRecency(SortByRecency(SubSeq(cs, 1, Len(cs) - 1)), cs[Len(cs)])

HasMessages(c) == Len(c.messages) > 0

\* .filter(c => c.messages.length > 0)
KeepWithMessages(cs) == SelectSeq(cs, HasMessages)

parseConversations(d) ==
    IF d.top # "array" THEN <<>>
    ELSE SortByRecency(KeepWithMessages(
             [k \in 1..Len(d.items) |-> ParseOneConversation(d.items[k], k - 1)]))

\* parseConversations(d) returns: the walk of every conversation ends
ParseReturns(d) ==
    d.top = "array" =>
        \A k \in 1..Len(d.items) :
            WalkEnds(IF "mapping" \in d.items[k].has THEN d.items[k].mapping
                     ELSE <<>>)

-----------------------------------------------------------------------------
(* The flat formats: Character.AI turns, SillyTavern messages, generic.    *)

\* new Date(x).getTime() / 1000.  A date of the model is given by the epoch
\* milliseconds getTime() returns for it, a whole number of seconds.
DateSeconds(ms) == ms \div 1000

\* A single-conversation result, as the three flat parsers build it
FlatConversation(messages) ==
    [id |-> 0,
     created |-> IF messages # <<>> THEN messages[1].timestamp ELSE 0,
     updated |-> IF messages # <<>> THEN messages[Len(messages)].timestamp ELSE 0,
     messages |-> messages,
     messageCount |-> Len(messages),
     textSize |-> TextSize(messages)]

isCharacterAIFormat(d) ==
    \/ d.top = "object" /\ d.key = "turns"
    \/ FirstHas(d, "is_human")
    \/ FirstHas(d, "candidates")

\* turn.candidates.find(c => c.candidate_id === id): <<>> stands for undefined
RECURSIVE FindCandidate(_, _)
FindCandidate(candidates, id) ==
    IF candidates = <<>> THEN <<>>
    ELSE IF Head(candidates).candidate_id = id THEN <<Head(candidates)>>
    ELSE FindCandidate(Tail(candidates), id)

PrimaryCandidate(turn) ==
    IF turn.primary_candidate_id # 0
    THEN FindCandidate(turn.candidates, turn.primary_candidate_id)
    ELSE SubSeq(turn.candidates, 1, 1)

TurnText(turn) ==
    IF "candidates" \in turn.has
    THEN LET primary == PrimaryCandidate(turn)
         IN  IF primary = <<>> THEN <<>> ELSE primary[1].raw_content
    ELSE IF "text" \in turn.has THEN turn.text
    ELSE <<>>

TurnMessages(turn) ==
    LET isHuman == "is_human" \in turn.has /\ turn.is_human
        text == TurnText(turn)
    IN  IF Trim(text) # <<>>
        THEN <<[role |-> IF isHuman THEN "user" ELSE "assistant",
                text |-> Trim(text),
                timestamp |-> IF turn.create_time # 0
                              THEN DateSeconds(turn.create_time) ELSE 0]>>
        ELSE <<>>

parseCharacterAI(d) ==
    LET turns == IF d.top = "array" \/ d.key = "turns" THEN d.items ELSE <<>>
        messages == Flatten([k \in 1..Len(turns) |-> TurnMessages(turns[k])])
    IN  <<FlatConversation(messages)>>

isSillyTavernFormat(d) ==
    \/ FirstHas(d, "mes")
    \/ d.top = "object" /\ d.key = "chat" /\ Len(d.items) > 0
       /\ "mes" \in d.items[1].has

EntryMessages(entry) ==
    IF "mes" \notin entry.has \/ entry.mes = <<>> \/ ~entry.mesIsString THEN <<>>
    ELSE <<[role |-> IF "is_user" \in entry.has /\ entry.is_user
                     THEN "user" ELSE "assistant",
            text |-> Trim(entry.mes),
            timestamp |-> IF entry.send_date # 0
                          THEN DateSeconds(entry.send_date) ELSE 0]>>

parseSillyTavern(d) ==
    LET entries == IF d.top = "array" \/ d.key \in {"chat", "messages"}
                   THEN d.items ELSE <<>>
        messages == Flatten([k \in 1..Len(entries) |-> EntryMessages(entries[k])])
    IN  <<FlatConversation(messages)>>

\* entry.text || ... || entry.mes || ... || '' ; <<>> also for a non-string
GenericText(entry) ==
    IF "text" \in entry.has /\ entry.text # <<>> THEN entry.text
    ELSE IF "mes" \in entry.has /\ entry.mesIsString THEN entry.mes
    ELSE <<>>

\* entry.timestamp || entry.create_time || entry.send_date || 0
GenericTime(entry) ==
    IF entry.timestamp # 0 THEN entry.timestamp
    ELSE IF entry.create_time # 0 THEN entry.create_time
    ELSE entry.send_date

GenericMessages(entry) ==
    LET text == GenericText(entry)
    IN  IF text = <<>> THEN <<>>
        ELSE <<[role |-> IF \/ entry.role = "user"
                            \/ "is_user" \in entry.has /\ entry.is_user
                            \/ "is_human" \in entry.has /\ entry.is_human
                         THEN "user" ELSE "assistant",
                text |-> Trim(text),
                timestamp |-> GenericTime(entry)]>>

parseGenericJSON(d) ==
    LET messages == Flatten([k \in 1..Len(d.items) |-> GenericMessages(d.items[k])])
    IN  IF messages = <<>> THEN <<>> ELSE <<FlatConversation(messages)>>

-----------------------------------------------------------------------------
(* Upload handlers.                                                        *)

\* The parser processJsonFile picks for a file
DetectFormat(d) ==
    IF isCharacterAIFormat(d) THEN "characterai"
    ELSE IF isSillyTavernFormat(d) THEN "sillytavern"
    ELSE IF FirstHas(d, "mapping") THEN "chatgpt"
    ELSE "generic"

ParseAs(format, d) ==
    CASE format = "characterai" -> parseCharacterAI(d)
      [] format = "sillytavern" -> parseSillyTavern(d)
      [] format = "chatgpt" -> parseConversations(d)
      [] OTHER -> parseGenericJSON(d)

\* showConversationSelector: the checkboxes it puts in the list, one for each
\* conversation
Checkboxes(cs) == {cs[k].id : k \in 1..Len(cs)}

\* An upload handler whose call of parseConversations does not return: the
\* status stays at the 'Reading ...' or 'Parsing ...' line that showStatus
\* put up before the call, and nothing is assigned.
NeverReturns(d) ==
    /\ data' = d
    /\ uploadStatus' = "reading"
    /\ UNCHANGED <<conversations, selectedConvoIds, rendered>>
    /\ UNCHANGED <<pipelineVars, storeVars, chatVars>>

\* processJsonFile, for a file that JSON.parse accepts.  showConversationSelector
\* starts with nothing selected; the generic path returns before it when it
\* found no message, with conversations already assigned.
ProcessJsonFile(d) ==
    LET format == DetectFormat(d)
        parsed == ParseAs(format, d)
        found == format # "generic"
                 \/ (Len(parsed) > 0 /\ Len(parsed[1].messages) > 0)
    IN  IF format = "chatgpt" /\ ~ParseReturns(d) THEN NeverReturns(d)
        ELSE /\ data' = d
             /\ conversations' = parsed
             /\ uploadStatus' = IF found THEN "success" ELSE "error"
             /\ selectedConvoIds' = IF found THEN {} ELSE selectedConvoIds
             /\ rendered' = IF found THEN Checkboxes(parsed) ELSE rendered
             /\ UNCHANGED <<pipelineVars, storeVars, chatVars>>

\* processZip, for an archive that holds a conversations.json
ProcessZip(d) ==
    IF ~ParseReturns(d) THEN NeverReturns(d)
    ELSE /\ data' = d
         /\ conversations' = parseConversations(d)
         /\ uploadStatus' = "success"
         /\ selectedConvoIds' = {}
         /\ rendered' = Checkboxes(parseConversations(d))
         /\ UNCHANGED <<pipelineVars, storeVars, chatVars>>

-----------------------------------------------------------------------------
(* Plain text logs.  A log is the sequence text.split('\n') returns.  A    *)
(* line that speakerPattern matches is given by its two groups: label      *)
(* (match[1]) and text (match[2]); any other line has the label NoLabel.   *)
(* A label is a word, written with or without a capital, with or without   *)
(* a blank before it.                                                      *)

Label(word, capital, padded) == [word |-> word, capital |-> capital, padded |-> padded]
NoLabel == Label("", FALSE, FALSE)

Line(label, text) == [label |-> label, text |-> text]

\* line.match(speakerPattern)
Matches(line) == line.label # NoLabel

\* match[1].trim()
TrimLabel(label) == [label EXCEPT !.padded = FALSE]

\* name.toLowerCase()
LowerCase(name) == [name EXCEPT !.capital = FALSE]

\* humanNames; '{{user}}' is left out, a label cannot hold a brace
humanNames ==
    {Label(word, FALSE, FALSE) : word \in {"you", "human", "user", "me"}}

\* The keys of the Map `speakers`, in insertion order
RECURSIVE SpeakerNames(_, _)
SpeakerNames(lines, seen) ==
    IF lines = <<>> THEN seen
    ELSE LET name == TrimLabel(Head(lines).label)
             known == \E k \in 1..Len(seen) : seen[k] = name
         IN  SpeakerNames(Tail(lines),
                          IF Matches(Head(lines)) /\ ~known THEN Append(seen, name)
                          ELSE seen)

\* speakers.get(name)
SpeakerCount(lines, name) ==
    Cardinality({k \in 1..Len(lines) :
                    Matches(lines[k]) /\ TrimLabel(lines[k].label) = name})

RECURSIVE InsertByCount(_, _)
InsertByCount(sorted, x) ==
    IF sorted = <<>> THEN <<x>>
    ELSE IF sorted[Len(sorted)].count >= x.count THEN Append(sorted, x)
    ELSE Append(InsertByCount(SubSeq(sorted, 1, Len(sorted) - 1), x),
                sorted[Len(sorted)])

\* [...speakers.entries()].sort((a, b) => b[1] - a[1])
RECURSIVE SortSpeakers(_)
SortSpeakers(entries) ==
    IF entries = <<>> THEN <<>>
    ELSE InsertByCount(SortSpeakers(SubSeq(entries, 1, Len(entries) - 1)),
                       entries[Len(entries)])

\* HumanSpeaker gone wrong: without an alias, the most frequent speaker
HumanSpeakerFirst(sortedSpeakers) ==
    LET aliases == {k \in 1..Len(sortedSpeakers) :
                        LowerCase(sortedSpeakers[k].name) \in humanNames}
    IN  IF aliases # {}
        THEN sortedSpeakers[CHOOSE k \in aliases : \A j \in aliases : k <= j]
        ELSE sortedSpeakers[1]

\* sortedSpeakers.find(alias) or else the last of sortedSpeakers
HumanSpeaker(sortedSpeakers) ==
    LET aliases == {k \in 1..Len(sortedSpeakers) :
                        LowerCase(sortedSpeakers[k].name) \in humanNames}
    IN  IF aliases # {}
        THEN sortedSpeakers[CHOOSE k \in aliases : \A j \in aliases : k <= j]
        ELSE sortedSpeakers[Len(sortedSpeakers)]

\* A line with something other than blanks in it
NonBlank(text) == Trim(text) # <<>>

\* The second pass of parseTextChat over the remaining lines
RECURSIVE SecondPass(_, _, _, _, _)
SecondPass(lines, humanName, currentRole, currentText, messages) ==
    LET flushed == IF currentRole # "" /\ NonBlank(currentText)
                   THEN Append(messages, [role |-> currentRole,
                                          text |-> Trim(currentText),
                                          timestamp |-> 0])
                   ELSE messages
    IN  IF lines = <<>> THEN flushed
        ELSE LET line == Head(lines) IN
             IF Matches(line)
             THEN SecondPass(Tail(lines), humanName,
                             IF TrimLabel(line.label) = humanName THEN "user"
                             ELSE "assistant",
                             line.text, flushed)
             ELSE IF currentRole # "" /\ NonBlank(line.text)
             THEN SecondPass(Tail(lines), humanName, currentRole,
                             Cat(currentText, Cat(Nl(1), line.text)), messages)
             ELSE SecondPass(Tail(lines), humanName, currentRole, currentText, messages)

parseTextChat(lines) ==
    LET names == SpeakerNames(lines, <<>>)
        entries == [k \in 1..Len(names) |->
                       [name |-> names[k], count |-> SpeakerCount(lines, names[k])]]
    IN  IF Len(names) < 2 THEN <<>>
        ELSE SecondPass(lines, HumanSpeaker(SortSpeakers(entries)).name, "", <<>>, <<>>)

\* processTextFile, for a file whose text has the lines `lines`
ProcessTextFile(lines) ==
    LET messages == parseTextChat(lines)
        found == messages # <<>>
    IN  /\ data' = lines
        /\ conversations' = IF found THEN <<FlatConversation(messages)>> ELSE conversations
        /\ uploadStatus' = IF found THEN "success" ELSE "error"
        /\ selectedConvoIds' = IF found THEN {} ELSE selectedConvoIds
        /\ rendered' = IF found THEN {0} ELSE rendered
        /\ UNCHANGED <<pipelineVars, storeVars, chatVars>>

-----------------------------------------------------------------------------
(* Selection (step 3) and the API key (step 1).                            *)

\* The text a call returns: its form, and a tag that tells replies apart
Reply(form, tag) == [form |-> form, tag |-> tag]
NoReply == Reply("none", 0)

\* A property of a profile: who set it (none: the property is missing; model:
\* it came with the parsed reply; pipeline: the program set it) and its value
Field(from, value) == [from |-> from, value |-> value]

\* The value of computeStats on no message
NoStats ==
    [totalMessages |-> 0, humanMessages |-> 0, aiMessages |-> 0, totalChars |-> 0,
     firstMessage |-> "null"]

\* A value of the _libraryId property: its type and, for a string, the
\* lengths of its groups between hyphens, the characters of the groups
\* (lower: 0-9a-f, upper: 0-9A-F, other), and a tag that tells ids apart
Id(type, groups, digits, tag) ==
    [type |-> type, groups |-> groups, digits |-> digits, tag |-> tag]

NoId == Id("missing", <<>>, "other", 0)

\* A parsed value, by what the program looks at: its kind (null, number,
\* string, array, emptyarray, object, raw for { raw_extraction }), the reply
\* it was parsed from, and the properties the pipeline sets on it
NoProfile ==
    [kind |-> "null", source |-> NoReply, hasTimeline |-> FALSE,
     companion_name |-> "", findings |-> FALSE, libraryId |-> NoId,
     stats |-> Field("none", NoStats),
     systemPrompt |-> Field("none", NoReply),
     extractedAt |-> Field("none", 0),
     sourceMessages |-> Field("none", 0),
     sourceConversations |-> Field("none", 0)]

\* saveApiKey with a non-blank key in the input field
SaveApiKey ==
    /\ apiKey' = "key"
    /\ UNCHANGED <<storeVars, chatVars, data, conversations, selectedConvoIds, uploadStatus, rendered,
                   extractionAborted, companionProfile, runs>>

\* The ids of the checkboxes showConversationSelector rendered: one for each
\* conversation of the list it was last called on
RenderedIds == rendered

\* toggleConvo(id, checked), from the checkbox of a rendered conversation
ToggleConvo(id, checked) ==
    /\ id \in RenderedIds
    /\ selectedConvoIds' = IF checked THEN selectedConvoIds \cup {id}
                           ELSE selectedConvoIds \ {id}
    /\ UNCHANGED <<data, conversations, uploadStatus, rendered>>
    /\ UNCHANGED <<pipelineVars, storeVars, chatVars>>

\* selectAll, with no filter typed: every rendered conversation is visible
SelectAll ==
    /\ selectedConvoIds' = selectedConvoIds \cup RenderedIds
    /\ UNCHANGED <<data, conversations, uploadStatus, rendered>>
    /\ UNCHANGED <<pipelineVars, storeVars, chatVars>>

\* selectNone
SelectNone ==
    /\ selectedConvoIds' = {}
    /\ UNCHANGED <<data, conversations, uploadStatus, rendered>>
    /\ UNCHANGED <<pipelineVars, storeVars, chatVars>>

-----------------------------------------------------------------------------
(* startExtraction: formatting, sampling, chunking.                        *)

\* Gemini 2.5 Flash: 1M token context. Use 500K chars per chunk.
CHUNK_SIZE == 500000

\* Max total chars to process. Beyond this we smart-sample.
MAX_TOTAL_CHARS == 5000000

\* ~500 chars per message estimate
CHARS_PER_MESSAGE == 500

\* The string literals of startExtraction, with their lengths
Lit(id, n) == <<Run("lit", id, n)>>
HumanPrefix == Lit(1, 9)        \* '[Human]: '
AiPrefix == Lit(2, 6)           \* '[AI]: '
MiddleMarker == Lit(3, 32)      \* '--- [middle period, sampled] ---'
RecentMarker == Lit(4, 23)      \* '--- [recent period] ---'

\* `[${m.role === 'user' ? 'Human' : 'AI'}]: ${m.text}`
FormatMessage(m) == Cat(IF m.role = "user" THEN HumanPrefix ELSE AiPrefix, m.text)

\* messages.map(format).join('\n\n')
FormatMessages(messages) ==
    Join([k \in 1..Len(messages) |-> FormatMessage(messages[k])], Nl(2))

\* conversations.filter(c => selectedConvoIds.has(c.id))
RECURSIVE SelectedConversations(_, _)
SelectedConversations(cs, ids) ==
    IF cs = <<>> THEN <<>>
    ELSE (IF Head(cs).id \in ids THEN <<Head(cs)>> ELSE <<>>)
         \o SelectedConversations(Tail(cs), ids)

\* Array.prototype.slice(0, count)
SliceFirst(s, count) == SubSeq(s, 1, count)

\* Array.prototype.slice(-count): a negative start counts from the end, and
\* -0 is 0, the start of the array
SliceLast(s, count) ==
    IF count = 0 THEN s ELSE SubSeq(s, Len(s) - count + 1, Len(s))

\* NeedsSampling gone wrong: a text of exactly the ceiling is sampled too
NeedsSamplingAtCeiling(formatted) == StrLen(formatted) >= MAX_TOTAL_CHARS

\* if (formatted.length > MAX_TOTAL_CHARS)
NeedsSampling(formatted) == StrLen(formatted) > MAX_TOTAL_CHARS

\* Math.max(1, Math.floor(middleCount / Math.max(1, remainingBudget / 500)))
SampleRate(middleCount, remainingBudget) ==
    LET quotient == IF remainingBudget <= CHARS_PER_MESSAGE THEN middleCount
                    ELSE (middleCount * CHARS_PER_MESSAGE) \div remainingBudget
    IN  IF quotient > 1 THEN quotient ELSE 1

\* middleMessages.filter((_, i) => i % sampleRate === 0), i from 0
RECURSIVE EveryNth(_, _, _)
EveryNth(s, k, rate) ==
    IF k > Len(s) THEN <<>>
    ELSE (IF (k - 1) % rate = 0 THEN <<s[k]>> ELSE <<>>) \o EveryNth(s, k + 1, rate)

\* The sampling branch: the three segments and the text built from them
Sample(allMessages) ==
    LET totalCount == Len(allMessages)
        earlyCount == totalCount \div 10
        recentCount == (3 * totalCount) \div 10
        middleCount == totalCount - earlyCount - recentCount
        early == SliceFirst(allMessages, earlyCount)
        recent == SliceLast(allMessages, recentCount)
        earlyText == FormatMessages(early)
        recentText == FormatMessages(recent)
        remainingBudget == MAX_TOTAL_CHARS - StrLen(earlyText) - StrLen(recentText)
        middleMessages == SubSeq(allMessages, earlyCount + 1, earlyCount + middleCount)
        sampleRate == SampleRate(Len(middleMessages), remainingBudget)
        sampledMiddle == EveryNth(middleMessages, 1, sampleRate)
        middleText == FormatMessages(sampledMiddle)
    IN  [applied |-> TRUE,
         early |-> early,
         sampledMiddle |-> sampledMiddle,
         recent |-> recent,
         sampleRate |-> sampleRate,
         formatted |->
            Cat(earlyText,
            Cat(Nl(2), Cat(MiddleMarker, Cat(Nl(2),
            Cat(middleText,
            Cat(Nl(2), Cat(RecentMarker, Cat(Nl(2), recentText))))))))]

NoSample(allMessages) ==
    [applied |-> FALSE, early |-> <<>>, sampledMiddle |-> <<>>, recent |-> <<>>,
     sampleRate |-> 0, formatted |-> FormatMessages(allMessages)]

\* The loop over lines: `current` is the buffer, `chunks` the closed chunks
RECURSIVE PackLines(_, _, _)
PackLines(lines, current, chunks) ==
    IF lines = <<>>
    THEN IF current # <<>> THEN Append(chunks, current) ELSE chunks
    ELSE LET line == Head(lines)
             close == StrLen(current) + StrLen(line) + 2 > CHUNK_SIZE
                      /\ StrLen(current) > 0
             buffer == IF close THEN <<>> ELSE current
         IN  PackLines(Tail(lines),
                       Cat(buffer, Cat(IF buffer # <<>> THEN Nl(2) ELSE <<>>, line)),
                       IF close THEN Append(chunks, current) ELSE chunks)

\* Split into chunks at message boundaries
SplitIntoChunks(formatted) ==
    IF StrLen(formatted) <= CHUNK_SIZE THEN <<formatted>>
    ELSE PackLines(SplitBlank(formatted), <<>>, <<>>)

\* A request to callOpenRouter, as the run issues it; reply is filled in when
\* it returns
Call(kind, index, input) ==
    [kind |-> kind, index |-> index, input |-> input, reply |-> NoReply]

RunIds == 1..Len(runs)

\* startExtraction up to its first await: the guards, the selected messages,
\* sampling, chunking, and the first chunk's request.  It has no guard on a
\* run in progress; limit bounds the invocations in one behaviour.
StartExtractionWithin(limit) ==
    /\ apiKey # ""
    /\ selectedConvoIds # {}
    /\ Len(runs) < limit
    /\ extractionAborted' = FALSE
    /\ LET selected == SelectedConversations(conversations, selectedConvoIds)
           allMessages == SortByTimestamp(
               Flatten([k \in 1..Len(selected) |-> selected[k].messages]))
           unsampled == FormatMessages(allMessages)
           sample == IF NeedsSampling(unsampled) THEN Sample(allMessages)
                     ELSE NoSample(allMessages)
           chunks == SplitIntoChunks(sample.formatted)
       IN  runs' = Append(runs,
               [pc |-> "chunk",
                allMessages |-> allMessages,
                selectedIds |-> selectedConvoIds,
                sourceConversations |-> Len(selected),
                unsampled |-> unsampled,
                sample |-> sample,
                chunks |-> chunks,
                results |-> <<>>,
                profile |-> NoProfile,
                saving |-> NoProfile,
                saved |-> FALSE,
                calls |-> <<Call("chunk", 1, <<>>)>>])
    /\ UNCHANGED <<storeVars, chatVars, data, conversations, selectedConvoIds, uploadStatus, rendered, apiKey,
                   companionProfile>>

\* startExtraction, in the specifications that follow one run
StartExtraction == StartExtractionWithin(MaxRuns)

-----------------------------------------------------------------------------
(* startExtraction after its first await: one action for each resumption.  *)

\* A JSON file: whether JSON.parse accepts its text, and the value it yields
JsonFile(valid, value) == [valid |-> valid, value |-> value]

\* No file has been downloaded
NoDownload == JsonFile(FALSE, NoProfile)

\* A file picked for import, with the user's answers to the two dialogs
Pick(file, acceptsWarning, acceptsContinuity) ==
    [file |-> file, acceptsWarning |-> acceptsWarning,
     acceptsContinuity |-> acceptsContinuity]

\* No file has been picked
NoPick == Pick(NoDownload, FALSE, FALSE)

\* A blocking dialog of importProfile: the alert for a file that is no
\* profile, the warning that lists the threats, or the continuity question
Dialog(kind, threats) == [kind |-> kind, threats |-> threats]

\* No dialog is open; importProfile's handler returns with every dialog closed
NoDialog == Dialog("none", <<>>)

\* The properties a reply of form "claiming" carries under the pipeline's own
\* names: stats, systemPrompt, extractedAt, sourceMessages, sourceConversations
Claimed(profile, text) ==
    [profile EXCEPT
        !.stats = Field("model", NoStats),
        !.systemPrompt = Field("model", text),
        !.extractedAt = Field("model", 0),
        !.sourceMessages = Field("model", 0),
        !.sourceConversations = Field("model", 0)]

\* parseJSON: the value it returns for a reply of each form.  A JSON object,
\* bare, fenced (```json ... ```) or embedded in prose, is returned as the
\* object; JSON null, a number, a string or an array parse at the first
\* attempt and are returned as they are; a reply with no JSON in it, the
\* empty reply included, becomes { raw_extraction: text }.
parseJSON(text) ==
    LET kind == CASE text.form \in {"object", "claiming", "fenced", "embedded"} -> "object"
                  [] text.form \in {"null", "number", "string", "array", "emptyarray"} ->
                        text.form
                  [] OTHER -> "raw"
        value == [NoProfile EXCEPT
                    !.kind = kind, !.source = text,
                    !.companion_name = IF kind = "object" THEN "Ada" ELSE ""]
    IN  IF text.form = "claiming" THEN Claimed(value, text) ELSE value

\* computeStats, by the counts it takes from the messages; firstMessage is a
\* Date object when more than one message has a timestamp, else null
computeStats(allMessages) ==
    LET human == {k \in 1..Len(allMessages) : allMessages[k].role = "user"}
        timed == {k \in 1..Len(allMessages) : allMessages[k].timestamp > 0}
    IN  [totalMessages |-> Len(allMessages),
         humanMessages |-> Cardinality(human),
         aiMessages |-> Len(allMessages) - Cardinality(human),
         totalChars |-> TextSize(allMessages),
         firstMessage |-> IF Cardinality(timed) > 1 THEN "Date" ELSE "null"]

\* The file is in strict mode: setting a property on null, a number or a
\* string throws a TypeError
IsPrimitive(value) == value.kind \in {"null", "number", "string"}

\* The awaited call returns text
Returned(run, text) ==
    [run EXCEPT !.calls[Len(run.calls)].reply = text]

Issue(run, pc, call) ==
    [run EXCEPT !.pc = pc, !.calls = Append(@, call)]

\* MergeNeeded gone wrong: a merge whatever the number of results
MergeAlways(results) == TRUE

\* if (results.length === 1) ... else: the else branch merges
MergeNeeded(results) == Len(results) # 1

\* results.map((r, i) => `--- Chunk ${i + 1} ---\n${r}`).join('\n\n')
MergeInput(results) == results

\* AfterProfile gone wrong: the timeline and the prompt requests are issued
\* together, before the statistics are computed
AfterProfileParallel(run, profile) ==
    IF IsPrimitive(profile)
    THEN [run EXCEPT !.pc = "failed", !.profile = profile]
    ELSE Issue(Issue([run EXCEPT !.profile = profile],
                     "timeline", Call("timeline", 0, <<>>)),
               "timeline", Call("prompt", 0, <<>>))

\* From profile.stats = computeStats(allMessages) to extractTimeline's request.
\* When the assignment throws, the outer catch ends the run.
AfterProfile(run, profile) ==
    IF IsPrimitive(profile)
    THEN [run EXCEPT !.pc = "failed", !.profile = profile]
    ELSE Issue([run EXCEPT !.profile =
                    [profile EXCEPT
                        !.stats = Field("pipeline", computeStats(run.allMessages))]],
               "timeline", Call("timeline", 0, <<>>))

\* AbortRequested gone wrong: the loop never looks at the flag
AbortIgnored(flag) == FALSE

\* if (extractionAborted), at the top of an iteration of the chunk loop
AbortRequested(flag) == flag

\* The chunk request of run r returns: push the result, then the next
\* iteration, or the end of the loop and what follows it
ChunkReturn(r, form) ==
    /\ r \in RunIds
    /\ runs[r].pc = "chunk"
    /\ LET run == runs[r]
           text == Reply(form, Len(run.calls))
           results == Append(run.results, text)
           back == [Returned(run, text) EXCEPT !.results = results]
       IN  runs' = [runs EXCEPT ![r] =
               IF Len(results) < Len(run.chunks)
               THEN IF AbortRequested(extractionAborted)
                    THEN [back EXCEPT !.pc = "cancelled"]
                    ELSE Issue(back, "chunk", Call("chunk", Len(results) + 1, <<>>))
               ELSE IF MergeNeeded(results)
               THEN Issue(back, "merge", Call("merge", 0, MergeInput(results)))
               ELSE AfterProfile(back, parseJSON(results[1]))]
    /\ UNCHANGED <<storeVars, chatVars, data, conversations, selectedConvoIds, uploadStatus, rendered, apiKey,
                   extractionAborted, companionProfile>>

\* The merge request returns
MergeReturn(r, form) ==
    /\ r \in RunIds
    /\ runs[r].pc = "merge"
    /\ LET text == Reply(form, Len(runs[r].calls))
       IN  runs' = [runs EXCEPT ![r] =
               AfterProfile(Returned(runs[r], text), parseJSON(text))]
    /\ UNCHANGED <<storeVars, chatVars, data, conversations, selectedConvoIds, uploadStatus, rendered, apiKey,
                   extractionAborted, companionProfile>>

\* if (timeline && timeline.length > 0) profile.relationship_timeline = timeline,
\* then generateSystemPrompt's request
AfterTimeline(run, timeline) ==
    Issue([run EXCEPT !.profile.hasTimeline = (timeline.kind \in {"array", "string"})],
          "prompt", Call("prompt", 0, <<>>))

\* The timeline request returns
TimelineReturn(r, form) ==
    /\ r \in RunIds
    /\ runs[r].pc = "timeline"
    /\ LET text == Reply(form, Len(runs[r].calls))
       IN  runs' = [runs EXCEPT ![r] =
               AfterTimeline(Returned(runs[r], text), parseJSON(text))]
    /\ UNCHANGED <<storeVars, chatVars, data, conversations, selectedConvoIds, uploadStatus, rendered, apiKey,
                   extractionAborted, companionProfile>>

\* AssembleProfile gone wrong: { systemPrompt, ..., ...profile }, the parsed
\* reply's properties spread last
AssembleSpreadLast(run, text) ==
    LET own(field, value) == IF field.from = "model" THEN field ELSE Field("pipeline", value)
    IN  [run.profile EXCEPT
            !.systemPrompt = own(@, text),
            !.extractedAt = own(@, 0),
            !.sourceMessages = own(@, Len(run.allMessages)),
            !.sourceConversations = own(@, run.sourceConversations)]

\* { ...profile, systemPrompt, extractedAt, sourceMessages, sourceConversations }
AssembleProfile(run, text) ==
    [run.profile EXCEPT
        !.systemPrompt = Field("pipeline", text),
        !.extractedAt = Field("pipeline", 0),
        !.sourceMessages = Field("pipeline", Len(run.allMessages)),
        !.sourceConversations = Field("pipeline", run.sourceConversations)]

\* The prompt request returns: companionProfile is assigned, the save begins
PromptReturn(r, form) ==
    /\ r \in RunIds
    /\ runs[r].pc = "prompt"
    /\ LET text == Reply(form, Len(runs[r].calls))
       IN  /\ runs' = [runs EXCEPT ![r] =
                  [Returned(runs[r], text) EXCEPT
                      !.pc = "save", !.saving = AssembleProfile(runs[r], text)]]
           /\ companionProfile' = AssembleProfile(runs[r], text)
    /\ UNCHANGED <<storeVars, chatVars, data, conversations, selectedConvoIds, uploadStatus, rendered, apiKey,
                   extractionAborted>>

\* FailureCaught gone wrong: generateSystemPrompt's failure is swallowed too
FailureCaughtLate(pc) == pc \in {"timeline", "prompt"}

\* The awaited request is inside extractTimeline's own try / catch
FailureCaught(pc) == pc = "timeline"

\* What the awaited request of a run settles with when callOpenRouter throws
Thrown(run) == Reply("error", Len(run.calls))

\* callOpenRouter throws (network failure, or a response that is not ok).
\* extractTimeline catches its own and returns null; the others reach the
\* catch of startExtraction, which logs the error.
CallFails(r) ==
    /\ r \in RunIds
    /\ runs[r].pc \in {"chunk", "merge", "timeline", "prompt"}
    /\ LET back == Returned(runs[r], Thrown(runs[r]))
       IN  runs' = [runs EXCEPT ![r] =
               IF FailureCaught(runs[r].pc)
               THEN AfterTimeline(back, NoProfile)
               ELSE [back EXCEPT !.pc = "failed"]]
    /\ UNCHANGED <<storeVars, chatVars, data, conversations, selectedConvoIds, uploadStatus, rendered, apiKey,
                   extractionAborted, companionProfile>>

\* The group lengths of a UUID: 8-4-4-4-12
UuidGroups == <<8, 4, 4, 4, 12>>

\* crypto.randomUUID: the k-th id it returns
randomUUID(k) == Id("string", UuidGroups, "lower", k)

\* /^[0-9a-f]{8}-[0-9a-f]{4}-[0-9a-f]{4}-[0-9a-f]{4}-[0-9a-f]{12}$/i
uuidPattern(value) ==
    /\ value.groups = UuidGroups
    /\ value.digits \in {"lower", "upper"}

\* KeepsId gone wrong: any string is kept as the key
KeepsAnyString(profile) == profile.libraryId.type = "string"

\* typeof profile._libraryId === 'string' && uuidPattern.test(profile._libraryId)
KeepsId(profile) ==
    profile.libraryId.type = "string" /\ uuidPattern(profile.libraryId)

\* new Date() in saveProfileToDB: the reading of the clock, by the number of
\* saves and imports completed before; a later save reads a later time
Now == imports + Cardinality({r \in RunIds : runs[r].saved})

\* The record saveProfileToDB puts for a profile, with profile._libraryId set
\* to the record's id
RecordOf(profile) ==
    LET id == IF KeepsId(profile) THEN profile.libraryId ELSE randomUUID(issued + 1)
    IN  [id |-> id,
         profile |-> [profile EXCEPT !.libraryId = id],
         savedAt |-> Now,
         name |-> IF profile.companion_name # "" THEN profile.companion_name
                  ELSE "Unnamed Companion"]

\* objectStore.put: the record replaces the one stored under its key
Put(record) == {stored \in library : stored.id # record.id} \cup {record}

\* saveProfileToDB(profile), when the database opens and the transaction
\* completes
saveProfileToDB(profile) ==
    /\ library' = Put(RecordOf(profile))
    /\ issued' = IF KeepsId(profile) THEN issued ELSE issued + 1

\* The awaited saveProfileToDB(companionProfile) settles: saved, or not when
\* the database does not open; the run goes on to show the results.  The
\* saved object is companionProfile unless a later run has assigned it.
SaveReturn(r, ok) ==
    /\ r \in RunIds
    /\ runs[r].pc = "save"
    /\ LET profile == runs[r].saving
       IN  IF ok
           THEN /\ saveProfileToDB(profile)
                /\ runs' = [runs EXCEPT ![r] =
                       [runs[r] EXCEPT
                           !.pc = "done", !.saved = TRUE,
                           !.saving = RecordOf(profile).profile]]
                /\ companionProfile' =
                       IF companionProfile = profile THEN RecordOf(profile).profile
                       ELSE companionProfile
           ELSE /\ runs' = [runs EXCEPT ![r] = [runs[r] EXCEPT !.pc = "done"]]
                /\ UNCHANGED <<library, issued, companionProfile>>
    /\ UNCHANGED <<exported, imports, picked, dialog, chatVars, data, conversations, selectedConvoIds,
                   uploadStatus, rendered, apiKey, extractionAborted>>

-----------------------------------------------------------------------------
(* The companion library: import, export, removal.                         *)

\* A string property is truthy unless it is missing or empty
Truthy(field) == field.from # "none" /\ field.value.form # "empty"

\* scanProfile(profile).length > 0: a pattern matches the systemPrompt, or a
\* string of more than 30 characters elsewhere in the profile
scanProfile(profile) ==
    \/ Truthy(profile.systemPrompt) /\ profile.systemPrompt.value.form = "suspicious"
    \/ profile.findings

\* ReachesSave gone wrong: the warning is not asked about
ReachesSaveUnasked(pick) ==
    LET profile == pick.file.value
    IN  /\ pick.file.valid
        /\ profile.kind # "null"
        /\ Truthy(profile.systemPrompt) \/ profile.companion_name # ""
        /\ pick.acceptsContinuity

\* importProfile reaches saveProfileToDB: JSON.parse returns, reading a
\* property of the value does not throw, the value has one of the two
\* signature fields, and the user accepts each dialog that is shown
ReachesSave(pick) ==
    LET profile == pick.file.value
    IN  /\ pick.file.valid
        /\ profile.kind # "null"
        /\ Truthy(profile.systemPrompt) \/ profile.companion_name # ""
        /\ scanProfile(profile) => pick.acceptsWarning
        /\ pick.acceptsContinuity

\* importProfile's onchange handler for one picked file; the save may fail
ImportProfile(file, acceptsWarning, acceptsContinuity, ok) ==
    /\ imports < MaxImports
    /\ imports' = imports + 1
    /\ picked' = Pick(file, acceptsWarning, acceptsContinuity)
    /\ IF ReachesSave(picked') /\ ok
       THEN saveProfileToDB(file.value)
       ELSE UNCHANGED <<library, issued>>
    /\ UNCHANGED <<exported, dialog, pipelineVars, chatVars, data, conversations,
                   selectedConvoIds, uploadStatus, rendered>>

\* A property as it is after JSON.stringify and JSON.parse: set by the file
FromFile(field) == IF field.from = "none" THEN field ELSE Field("file", field.value)

\* The value that the text JSON.stringify(profile, null, 2) parses to: a Date
\* is written by its toJSON as a string, everything else the model holds is
\* written and read back as it is
Stringify(profile) ==
    [profile EXCEPT
        !.stats = FromFile([@ EXCEPT !.value.firstMessage =
                                IF @ = "Date" THEN "string" ELSE @]),
        !.systemPrompt = FromFile(@),
        !.extractedAt = FromFile(@),
        !.sourceMessages = FromFile(@),
        !.sourceConversations = FromFile(@)]

\* Every order of the records of a store
Orders(store) ==
    {listing \in [1..Cardinality(store) -> store] :
        \A i, j \in 1..Cardinality(store) : i # j => listing[i] # listing[j]}

\* loadAllProfiles: getAll returns the records in the order of their keys.
\* The keys are UUIDs the program draws at random or takes from a file, so
\* the order of two keys is not tied to the order of their saves: every
\* order of the records is a possible result.
loadAllProfiles == Orders(library)

\* NewerFirst gone wrong: (a, b) => new Date(a.savedAt) - new Date(b.savedAt)
OlderFirst(a, b) == a.savedAt < b.savedAt

\* (a, b) => new Date(b.savedAt) - new Date(a.savedAt) is negative: a goes
\* before b
NewerFirst(a, b) == a.savedAt > b.savedAt

\* Array.prototype.sort with that comparator, which is stable: insertion
\* after every record that does not go behind x
InsertBySavedAt(sorted, x) ==
    LET behind == {k \in 1..Len(sorted) : NewerFirst(x, sorted[k])}
        at == IF behind = {} THEN Len(sorted) + 1
              ELSE CHOOSE k \in behind : \A j \in behind : k <= j
    IN  SubSeq(sorted, 1, at - 1) \o <<x>> \o SubSeq(sorted, at, Len(sorted))

RECURSIVE SortBySavedAt(_)
SortBySavedAt(profiles) ==
    IF profiles = <<>> THEN <<>>
    ELSE InsertBySavedAt(SortBySavedAt(SubSeq(profiles, 1, Len(profiles) - 1)),
                         profiles[Len(profiles)])

\* renderLibrary: the cards it builds from the result of loadAllProfiles
renderLibrary(profiles) == SortBySavedAt(profiles)

\* profiles.find(r => r.id === id), in loadFromLibrary and exportFromLibrary:
\* the first record with that id, <<>> for undefined
Find(profiles, id) ==
    LET hits == {k \in 1..Len(profiles) : profiles[k].id = id}
    IN  IF hits = {} THEN <<>>
        ELSE <<profiles[CHOOSE k \in hits : \A j \in hits : k <= j]>>

-----------------------------------------------------------------------------
(* scanProfile on a structured value.  A JSON value is a string (by its    *)
(* length, whether an injection pattern matches it, and an id that tells   *)
(* it from the other strings of the file), a number, an array (items) or   *)
(* an object (keys and items, in the order of Object.entries).  A path is  *)
(* the sequence of the pieces it was concatenated from; the empty key adds *)
(* no piece.                                                               *)

Value(type, keys, items, length, suspicious, id) ==
    [type |-> type, keys |-> keys, items |-> items, length |-> length,
     suspicious |-> suspicious, id |-> id]

StringValue(length, suspicious, id) == Value("string", <<>>, <<>>, length, suspicious, id)
NumberValue == Value("number", <<>>, <<>>, 0, FALSE, 0)
ArrayValue(items) == Value("array", <<>>, items, Len(items), FALSE, 0)
ObjectValue(keys, items) == Value("object", keys, items, 0, FALSE, 0)
Undefined == Value("undefined", <<>>, <<>>, 0, FALSE, 0)

\* obj[key]
Get(obj, key) ==
    LET at == {k \in 1..Len(obj.keys) : obj.keys[k] = key}
    IN  IF at = {} THEN Undefined ELSE obj.items[CHOOSE k \in at : TRUE]

\* if (value): undefined and the empty string are falsy; the numbers of the
\* model are not zero
IsTruthy(value) ==
    /\ value.type # "undefined"
    /\ value.type = "string" => value.length > 0

\* clean.match(pattern) on sanitizeText(text): the string a pattern matches
\* in, if any.  A value that is no string is scanned as String(value): an
\* array as its items joined by commas, an object as '[object Object]'.
RECURSIVE FirstMatch(_)
FirstMatch(text) ==
    CASE text.type = "string" -> IF text.suspicious THEN <<text.id>> ELSE <<>>
      [] text.type = "array" ->
            IF text.items = <<>> THEN <<>>
            ELSE IF FirstMatch(Head(text.items)) # <<>> THEN FirstMatch(Head(text.items))
            ELSE FirstMatch(ArrayValue(Tail(text.items)))
      [] OTHER -> <<>>

\* scanForInjection(text), by the matches of one pattern
scanForInjection(text) ==
    [k \in 1..Len(FirstMatch(text)) |-> [pattern |-> "pattern", matched |-> FirstMatch(text)[k]]]

\* threats.push({ field, ...t }) for each t
Tagged(field, found) ==
    [k \in 1..Len(found) |-> [field |-> field, matched |-> found[k].matched]]

\* `[${i}]`
IndexPiece(i) == <<"[0]", "[1]", "[2]", "[3]">>[i + 1]

\* `${k}`
KeyPieces(k) == IF k = "" THEN <<>> ELSE <<k>>

\* The inner function walk(obj, path) of scanProfile, by the threats it
\* pushes; WalkItems is obj.forEach from item i on, WalkEntries the loop over
\* Object.entries(obj) from entry i on
RECURSIVE walk(_, _)
RECURSIVE WalkItems(_, _, _)
RECURSIVE WalkEntries(_, _, _)
walk(obj, path) ==
    CASE obj.type = "string" /\ obj.length > 30 -> Tagged(path, scanForInjection(obj))
      [] obj.type = "array" -> WalkItems(obj, 1, path)
      [] obj.type = "object" -> WalkEntries(obj, 1, path)
      [] OTHER -> <<>>

WalkItems(obj, i, path) ==
    IF i > Len(obj.items) THEN <<>>
    ELSE walk(obj.items[i], path \o <<IndexPiece(i - 1)>>) \o WalkItems(obj, i + 1, path)

WalkEntries(obj, i, path) ==
    IF i > Len(obj.items) THEN <<>>
    ELSE (IF obj.keys[i] = "systemPrompt" THEN <<>>
          ELSE walk(obj.items[i],
                    IF path # <<>> THEN path \o <<".">> \o KeyPieces(obj.keys[i])
                    ELSE KeyPieces(obj.keys[i])))
         \o WalkEntries(obj, i + 1, path)

\* scanProfile(profile), by the threats it returns
ScanThreats(profile) ==
    (IF IsTruthy(Get(profile, "systemPrompt"))
     THEN Tagged(<<"systemPrompt">>, scanForInjection(Get(profile, "systemPrompt")))
     ELSE <<>>)
    \o walk(profile, <<>>)

\* importProfile's onchange handler for a file whose text parses to the
\* object in data, up to the first dialog it waits at
OpenImport ==
    /\ dialog = NoDialog
    /\ dialog' =
          IF ~IsTruthy(Get(data, "systemPrompt")) /\ ~IsTruthy(Get(data, "companion_name"))
          THEN Dialog("alert", <<>>)
          ELSE IF Len(ScanThreats(data)) > 0
          THEN Dialog("warning", ScanThreats(data))
          ELSE Dialog("continuity", <<>>)
    /\ UNCHANGED <<library, issued, exported, imports, picked, pipelineVars, chatVars,
                   data, conversations, selectedConvoIds, uploadStatus, rendered>>

\* exportFromLibrary for the card of a stored record
ExportFromLibrary(id) ==
    /\ \E stored \in library :
          /\ stored.id = id
          /\ exported' = JsonFile(TRUE, Stringify(stored.profile))
    /\ UNCHANGED <<library, issued, imports, picked, dialog, pipelineVars, chatVars, data,
                   conversations, selectedConvoIds, uploadStatus, rendered>>

\* removeFromLibrary for the card of a stored record
RemoveFromLibrary(id, confirmed) ==
    /\ \E stored \in library : stored.id = id
    /\ library' = IF confirmed THEN {stored \in library : stored.id # id} ELSE library
    /\ UNCHANGED <<issued, exported, imports, picked, dialog, pipelineVars, chatVars, data,
                   conversations, selectedConvoIds, uploadStatus, rendered>>

-----------------------------------------------------------------------------
(* The results page and the chat.                                          *)

\* The timer set after the save fires: showResults starts the chat session
\* with the system prompt
ShowResults(r) ==
    /\ r \in RunIds
    /\ runs[r].pc = "done"
    /\ runs' = [runs EXCEPT ![r] = [runs[r] EXCEPT !.pc = "shown"]]
    /\ chatHistory' = <<[role |-> "system", content |-> companionProfile.systemPrompt.value]>>
    /\ UNCHANGED <<chatRequests, storeVars, data, conversations, selectedConvoIds,
                   uploadStatus, rendered, apiKey, extractionAborted, companionProfile>>

\* max 10,000
ChatMessageCap == 10000

\* TooLong gone wrong: a message of exactly the cap is refused
TooLongAtCap(text) == StrLen(text) >= ChatMessageCap

\* text.length > 10000
TooLong(text) == StrLen(text) > ChatMessageCap

\* sendMessage up to its first await, for the value of the chat input: an
\* empty or too long message returns at once, any other is pushed to
\* chatHistory and posted with the history
SendMessage(value) ==
    LET text == Trim(value)
        accepted == text # <<>> /\ ~TooLong(text)
        history == IF accepted
                   THEN Append(chatHistory, [role |-> "user", content |-> text])
                   ELSE chatHistory
    IN  /\ \E r \in RunIds : runs[r].pc = "shown"
        /\ Len(chatRequests) < MaxChats
        /\ chatHistory' = history
        /\ chatRequests' = Append(chatRequests,
               [input |-> value,
                status |-> IF accepted THEN "pending" ELSE "refused",
                messages |-> IF accepted THEN history ELSE <<>>])
        /\ UNCHANGED <<pipelineVars, storeVars, data, conversations, selectedConvoIds,
                       uploadStatus, rendered>>

\* The stream of request q ends: the reply is pushed to chatHistory
ChatReturn(q, form) ==
    /\ q \in 1..Len(chatRequests)
    /\ chatRequests[q].status = "pending"
    /\ chatRequests' = [chatRequests EXCEPT ![q].status = "done"]
    /\ chatHistory' = Append(chatHistory, [role |-> "assistant", content |-> Reply(form, q)])
    /\ UNCHANGED <<pipelineVars, storeVars, data, conversations, selectedConvoIds,
                   uploadStatus, rendered>>

\* fetch or the stream of request q throws: the error is shown in the page
ChatFails(q) ==
    /\ q \in 1..Len(chatRequests)
    /\ chatRequests[q].status = "pending"
    /\ chatRequests' = [chatRequests EXCEPT ![q].status = "failed"]
    /\ UNCHANGED <<chatHistory, pipelineVars, storeVars, data, conversations,
                   selectedConvoIds, uploadStatus, rendered>>

-----------------------------------------------------------------------------
(* The files of the parser specification.                                  *)

RECURSIVE AscendingSeq(_)
AscendingSeq(S) ==
    IF S = {} THEN <<>>
    ELSE LET m == CHOOSE x \in S : \A y \in S : x <= y
         IN  <<m>> \o AscendingSeq(S \ {m})

Reverse(s) == [k \in 1..Len(s) |-> s[Len(s) + 1 - k]]

NodeKinds == {"plain", "none", "system", "blank", "nonstring", "multi"}
TimeModes == {"asc", "desc", "convo", "zero"}

NoMessage ==
    [present |-> FALSE, hasContent |-> FALSE, role |-> "", parts |-> <<>>,
     create_time |-> 0]

StringPart(s) == [isString |-> TRUE, s |-> s]
ObjectPart == [isString |-> FALSE, s |-> <<>>]

\* The message of node i (of n) of a generated mapping.  Its text is marked
\* with the node's id.
TreeMessage(i, n, kind, tmode) ==
    IF kind = "none" THEN NoMessage
    ELSE [present |-> TRUE,
          hasContent |-> TRUE,
          role |-> IF kind = "system" THEN "system"
                   ELSE IF i % 2 = 1 THEN "user" ELSE "assistant",
          parts |-> CASE kind = "blank" -> <<StringPart(Sp(1))>>
                      [] kind = "nonstring" -> <<ObjectPart>>
                      [] kind = "multi" ->
                            <<StringPart(Cat(Sp(1), Txt(i, 1))), ObjectPart,
                              StringPart(Cat(Txt(i, 1), Nl(1)))>>
                      [] OTHER -> <<StringPart(Txt(i, 1))>>,
          create_time |-> CASE tmode = "asc" -> i
                            [] tmode = "desc" -> n + 1 - i
                            [] OTHER -> 0]

\* A well-formed mapping of n nodes: node 1 is the root, parent[i] < i, and a
\* node's children are listed by ascending or by descending id.  One node
\* (special) has the kind `kind`, the others are plain.
TreeConvo(n, parent, descending, special, kind, tmode) ==
    [NoEntry EXCEPT
        !.has = {"mapping"},
        !.create_time = IF tmode = "convo" THEN 7 ELSE 0,
        !.update_time = IF tmode = "asc" THEN 9 ELSE 0,
        !.mapping =
            [i \in 1..n |->
                LET kids == AscendingSeq({j \in 2..n : parent[j] = i})
                IN  [parent |-> IF i = 1 THEN 0 ELSE parent[i],
                     children |-> IF descending THEN Reverse(kids) ELSE kids,
                     message |-> TreeMessage(i, n,
                                    IF i = special THEN kind ELSE "plain", tmode)]]]

\* A conversation that yields no message, and one that yields one
EmptyConvo == TreeConvo(1, <<>>, FALSE, 1, "none", "zero")
SmallConvo == TreeConvo(1, <<>>, FALSE, 1, "plain", "desc")

\* An export of len conversations: c at position p, the others all filler
TreeFile(len, p, c, filler) ==
    ArrayFile([k \in 1..len |-> IF k = p THEN c ELSE filler])

\* d is one of the generated exports of 1..MaxConvos conversations
IsTreeFile(d) ==
    \E len \in 1..MaxConvos, p \in 1..MaxConvos, n \in 1..MaxNodes :
        /\ p <= len
        /\ \E parent \in [2..n -> 1..MaxNodes] :
              /\ \A i \in 2..n : parent[i] < i
              /\ \E descending \in BOOLEAN, special \in 1..n, kind \in NodeKinds,
                    tmode \in TimeModes, filler \in {EmptyConvo, SmallConvo} :
                    d = TreeFile(len, p,
                            TreeConvo(n, parent, descending, special, kind, tmode),
                            filler)

TextKinds == {"word", "padded", "blank", "empty"}

\* A text of the given kind, marked id
KindText(kind, id) ==
    CASE kind = "word" -> Txt(id, 1)
      [] kind = "padded" -> Cat(Sp(1), Cat(Txt(id, 1), Nl(1)))
      [] kind = "blank" -> Sp(1)
      [] OTHER -> <<>>

Dates == {0, 1000, 2000}

CaiTurn(human, kind, date, inCandidate) ==
    IF inCandidate
    THEN [NoEntry EXCEPT
            !.has = {"is_human", "candidates"}, !.is_human = human,
            !.candidates = <<[candidate_id |-> 1, raw_content |-> KindText(kind, 1)]>>,
            !.create_time = date]
    ELSE [NoEntry EXCEPT
            !.has = {"is_human", "text"}, !.is_human = human,
            !.text = KindText(kind, 1), !.create_time = date]

CaiTurns ==
    {CaiTurn(human, kind, date, FALSE) :
        human \in BOOLEAN, kind \in TextKinds, date \in Dates}
    \cup {CaiTurn(human, "word", date, TRUE) : human \in BOOLEAN, date \in Dates}

StEntry(user, kind, date, isString) ==
    [NoEntry EXCEPT
        !.has = {"mes", "is_user"}, !.is_user = user, !.mes = KindText(kind, 1),
        !.mesIsString = isString, !.send_date = date]

StEntries ==
    {StEntry(user, kind, date, TRUE) :
        user \in BOOLEAN, kind \in TextKinds, date \in Dates}
    \cup {StEntry(user, "word", date, FALSE) : user \in BOOLEAN, date \in Dates}

GenericEntry(role, kind, time) ==
    [NoEntry EXCEPT
        !.has = {"text", "role"}, !.role = role, !.text = KindText(kind, 1),
        !.timestamp = time]

GenericEntries ==
    {GenericEntry(role, kind, time) :
        role \in {"user", "assistant"}, kind \in TextKinds, time \in 0..2}

\* d is one of the generated flat files of 0..MaxTurns entries
IsFlatFile(d) ==
    \E len \in 0..MaxTurns :
        \/ \E ts \in [1..len -> CaiTurns] :
              d = ObjectFile("turns", ts) \/ d = ArrayFile(ts)
        \/ \E es \in [1..len -> StEntries] :
              d = ObjectFile("chat", es) \/ d = ArrayFile(es)
        \/ \E es \in [1..len -> GenericEntries] :
              d = ObjectFile("log", es) \/ d = ArrayFile(es)

-----------------------------------------------------------------------------
(* The parser specification: one file, chosen from the files above, is  *)
(* handed to an upload handler.  uploadStatus = "none" until it returns. *)

InitParse ==
    /\ IsTreeFile(data) \/ IsFlatFile(data)
    /\ conversations = <<>>
    /\ selectedConvoIds = {}
    /\ uploadStatus = "none"
    /\ rendered = {}
    /\ apiKey = ""
    /\ extractionAborted = FALSE
    /\ companionProfile = NoProfile
    /\ runs = <<>>
    /\ library = {}
    /\ issued = 0
    /\ exported = NoDownload
    /\ imports = 0
    /\ picked = NoPick
    /\ dialog = NoDialog
    /\ chatHistory = <<>>
    /\ chatRequests = <<>>

\* routeFileUpload for a .zip whose conversations.json is `data`
UploadZip ==
    /\ uploadStatus = "none"
    /\ FirstHas(data, "mapping")
    /\ ProcessZip(data)

\* routeFileUpload for a .json file holding `data`
UploadJson ==
    /\ uploadStatus = "none"
    /\ ProcessJsonFile(data)

NextParse == UploadZip \/ UploadJson

SpecParse == InitParse /\ [][NextParse]_vars

-----------------------------------------------------------------------------
(* The files of the sampling / chunking specification: exports whose       *)
(* messages have the sizes that matter to MAX_TOTAL_CHARS and CHUNK_SIZE.  *)

UniformShapes == {"small", "half", "big", "huge", "quarter"}
SpecialShapes == {"exact", "over", "para", "longpara", "gaps"}

PrefixLen(uid) == IF uid % 2 = 1 THEN 9 ELSE 6

\* The text of message uid, marked uid.  It has no blank at either end.
ShapeText(shape, uid) ==
    CASE shape = "small" -> Txt(uid, 100)
      [] shape = "half" -> Txt(uid, 200000)
      [] shape = "big" -> Txt(uid, CHUNK_SIZE + 100000)
      [] shape = "huge" -> Txt(uid, MAX_TOTAL_CHARS \div 2)
      [] shape = "quarter" -> Txt(uid, (MAX_TOTAL_CHARS \div 4) - 380)
      [] shape = "exact" -> Txt(uid, MAX_TOTAL_CHARS - PrefixLen(uid))
      [] shape = "over" -> Txt(uid, MAX_TOTAL_CHARS - PrefixLen(uid) + 1)
      [] shape = "para" -> Cat(Txt(uid, 300000), Cat(Nl(2), Txt(uid, 300000)))
      [] shape = "longpara" -> Cat(Txt(uid, CHUNK_SIZE + 100000), Cat(Nl(2), Txt(uid, 1)))
      [] OTHER -> Cat(Txt(uid, CHUNK_SIZE - PrefixLen(uid)), Cat(Nl(4), Txt(uid, 1)))

\* A conversation whose mapping is a chain: one node for each of uids, in order
ChainConvo(uids, shapeOf, timed) ==
    [NoEntry EXCEPT
        !.has = {"mapping"},
        !.mapping =
            [i \in 1..Len(uids) |->
                [parent |-> i - 1,
                 children |-> IF i < Len(uids) THEN <<i + 1>> ELSE <<>>,
                 message |->
                    [present |-> TRUE, hasContent |-> TRUE,
                     role |-> IF uids[i] % 2 = 1 THEN "user" ELSE "assistant",
                     parts |-> <<StringPart(ShapeText(shapeOf[uids[i]], uids[i]))>>,
                     create_time |-> IF timed THEN uids[i] ELSE 0]]]]

\* An export of n messages in one conversation, or dealt in turn to two
ChunkFile(n, shapeOf, two, timed) ==
    IF two /\ n >= 2
    THEN ArrayFile(<<ChainConvo(AscendingSeq({u \in 1..n : u % 2 = 1}), shapeOf, timed),
                     ChainConvo(AscendingSeq({u \in 1..n : u % 2 = 0}), shapeOf, timed)>>)
    ELSE ArrayFile(<<ChainConvo([u \in 1..n |-> u], shapeOf, timed)>>)

\* A Character.AI export with no turn
EmptyTurnsFile == ObjectFile("turns", <<>>)

IsChunkFile(d) ==
    \/ d = EmptyTurnsFile
    \/ \E n \in 1..MaxMsgs, shape \in UniformShapes, two \in BOOLEAN, timed \in BOOLEAN :
          d = ChunkFile(n, [u \in 1..n |-> shape], two, timed)
    \/ \E n \in 1..3, p \in 1..3, shape \in SpecialShapes, two \in BOOLEAN, timed \in BOOLEAN :
          /\ p <= n
          /\ d = ChunkFile(n, [u \in 1..n |-> IF u = p THEN shape ELSE "small"], two, timed)

-----------------------------------------------------------------------------
(* The sampling / chunking specification: upload, key, selection, and      *)
(* startExtraction up to the first request.                                *)

InitChunk ==
    /\ IsChunkFile(data)
    /\ conversations = <<>>
    /\ selectedConvoIds = {}
    /\ uploadStatus = "none"
    /\ rendered = {}
    /\ apiKey = ""
    /\ extractionAborted = FALSE
    /\ companionProfile = NoProfile
    /\ runs = <<>>
    /\ library = {}
    /\ issued = 0
    /\ exported = NoDownload
    /\ imports = 0
    /\ picked = NoPick
    /\ dialog = NoDialog
    /\ chatHistory = <<>>
    /\ chatRequests = <<>>

NextChunk ==
    \/ UploadJson
    \/ SaveApiKey
    \/ SelectAll
    \/ \E id \in RenderedIds, checked \in BOOLEAN : ToggleConvo(id, checked)
    \/ StartExtraction

SpecChunk == InitChunk /\ [][NextChunk]_vars

-----------------------------------------------------------------------------
(* The extraction specification: an export of 1..MaxRunMsgs messages, each *)
(* too long to share a chunk, is uploaded, selected and extracted; every   *)
(* request returns one of a few replies, or fails.                         *)

IsRunFile(d) ==
    \/ d = EmptyTurnsFile
    \/ \E n \in 1..MaxRunMsgs : d = ChunkFile(n, [u \in 1..n |-> "big"], FALSE, TRUE)

ChunkReplies == {"object", "null"}
MergeReplies == {"fenced", "null"}

\* The replies drawn for a chunk request: both when the run has one chunk,
\* where the reply becomes the profile; an object when it has more
ChunkRepliesFor(run) == IF Len(run.chunks) = 1 THEN ChunkReplies ELSE {"object"}

TimelineReplies == {"array", "prose"}
PromptReplies == {"text"}

Init ==
    /\ IsRunFile(data)
    /\ conversations = <<>>
    /\ selectedConvoIds = {}
    /\ uploadStatus = "none"
    /\ rendered = {}
    /\ apiKey = ""
    /\ extractionAborted = FALSE
    /\ companionProfile = NoProfile
    /\ runs = <<>>
    /\ library = {}
    /\ issued = 0
    /\ exported = NoDownload
    /\ imports = 0
    /\ picked = NoPick
    /\ dialog = NoDialog
    /\ chatHistory = <<>>
    /\ chatRequests = <<>>

Next ==
    \/ UploadJson
    \/ SaveApiKey
    \/ SelectAll
    \/ \E id \in RenderedIds, checked \in BOOLEAN : ToggleConvo(id, checked)
    \/ StartExtraction
    \/ \E r \in RunIds : \E form \in ChunkRepliesFor(runs[r]) : ChunkReturn(r, form)
    \/ \E r \in RunIds, form \in MergeReplies : MergeReturn(r, form)
    \/ \E r \in RunIds, form \in TimelineReplies : TimelineReturn(r, form)
    \/ \E r \in RunIds, form \in PromptReplies : PromptReturn(r, form)
    \/ \E r \in RunIds : CallFails(r)
    \/ \E r \in RunIds, ok \in BOOLEAN : SaveReturn(r, ok)

Spec == Init /\ [][Next]_vars

-----------------------------------------------------------------------------
(* The extraction specification with the cancel signal of the design: the  *)
(* process-wide abort flag is raised from outside, at any time.  The       *)
(* program itself only lowers the flag (StartExtraction) and reads it      *)
(* (ChunkReturn).                                                          *)

Cancel ==
    /\ extractionAborted' = TRUE
    /\ UNCHANGED <<storeVars, chatVars, data, conversations, selectedConvoIds,
                   uploadStatus, rendered, apiKey, companionProfile, runs>>

NextCancel == Next \/ Cancel

SpecCancel == Init /\ [][NextCancel]_vars

-----------------------------------------------------------------------------
(* The concurrent-run specification: startExtraction is invoked up to      *)
(* MaxStarts times, at any moment at which the page lets it be: the upload *)
(* step stays on the page during a run, and uploading the export again     *)
(* shows the selection step and its button again.  Requests return         *)
(* well-formed replies; the cancel signal is that of the design.           *)

\* A further invocation of startExtraction, over the same selection
StartAgain == StartExtractionWithin(MaxStarts)

NextRuns ==
    \/ UploadJson
    \/ SaveApiKey
    \/ SelectAll
    \/ StartAgain
    \/ \E r \in RunIds : ChunkReturn(r, "object")
    \/ \E r \in RunIds : MergeReturn(r, "fenced")
    \/ \E r \in RunIds : TimelineReturn(r, "array")
    \/ \E r \in RunIds : PromptReturn(r, "text")
    \/ \E r \in RunIds : SaveReturn(r, TRUE)
    \/ Cancel

SpecRuns == Init /\ [][NextRuns]_vars

-----------------------------------------------------------------------------
(* The reply specification: one extraction over an export of one or two    *)
(* conversations, where every request returns a reply of any form: a JSON  *)
(* object (bare, fenced, embedded in prose, or carrying the pipeline's own *)
(* property names), prose, nothing, or JSON that is not an object.         *)

IsReplyFile(d) ==
    \E n \in 1..MaxReplyMsgs, two \in BOOLEAN, timed \in BOOLEAN :
        d = ChunkFile(n, [u \in 1..n |-> "big"], two, timed)

JsonForms == {"object", "claiming", "fenced", "embedded"}
BareForms == {"null", "number", "string", "array", "emptyarray"}
TextForms == {"prose", "empty"}
ReplyForms == JsonForms \cup BareForms \cup TextForms

\* The replies drawn for a chunk request: every form when the run has one
\* chunk, where the reply becomes the profile; two forms when it has more
ChunkFormsFor(run) ==
    IF Len(run.chunks) = 1 THEN ReplyForms ELSE {"object", "prose"}

TimelineForms == {"array", "emptyarray", "null", "string", "prose"}
PromptForms == {"text", "empty"}

InitReplies ==
    /\ IsReplyFile(data)
    /\ conversations = <<>>
    /\ selectedConvoIds = {}
    /\ uploadStatus = "none"
    /\ rendered = {}
    /\ apiKey = ""
    /\ extractionAborted = FALSE
    /\ companionProfile = NoProfile
    /\ runs = <<>>
    /\ library = {}
    /\ issued = 0
    /\ exported = NoDownload
    /\ imports = 0
    /\ picked = NoPick
    /\ dialog = NoDialog
    /\ chatHistory = <<>>
    /\ chatRequests = <<>>

\* The first click on the extract button
StartOnce == runs = <<>> /\ StartExtraction

NextReplies ==
    \/ UploadJson
    \/ SaveApiKey
    \/ SelectAll
    \/ \E id \in RenderedIds, checked \in BOOLEAN : ToggleConvo(id, checked)
    \/ StartOnce
    \/ \E r \in RunIds : \E form \in ChunkFormsFor(runs[r]) : ChunkReturn(r, form)
    \/ \E r \in RunIds, form \in ReplyForms : MergeReturn(r, form)
    \/ \E r \in RunIds, form \in TimelineForms : TimelineReturn(r, form)
    \/ \E r \in RunIds, form \in PromptForms : PromptReturn(r, form)
    \/ \E r \in RunIds : CallFails(r)
    \/ \E r \in RunIds, ok \in BOOLEAN : SaveReturn(r, ok)

SpecReplies == InitReplies /\ [][NextReplies]_vars

-----------------------------------------------------------------------------
(* The library specification: one extraction with well-formed replies,     *)
(* and imports of profile files of every kind.                             *)

IdShapes == {"missing", "number", "word", "short", "nonhex", "uuid", "upper"}

\* The _libraryId of an imported file, by shape
ShapedId(shape) ==
    CASE shape = "missing" -> NoId
      [] shape = "number" -> Id("number", <<>>, "other", -1)
      [] shape = "word" -> Id("string", <<3>>, "lower", -1)
      [] shape = "short" -> Id("string", <<8, 4, 4, 4, 11>>, "lower", -1)
      [] shape = "nonhex" -> Id("string", UuidGroups, "other", -1)
      [] shape = "upper" -> Id("string", UuidGroups, "upper", -1)
      [] OTHER -> Id("string", UuidGroups, "lower", -1)

PromptShapes == {"none", "empty", "clean", "suspicious"}

\* A JSON object with the properties importProfile and saveProfileToDB read
ImportObject(prompt, name, findings, shape) ==
    [NoProfile EXCEPT
        !.kind = "object",
        !.source = Reply("file", 0),
        !.systemPrompt = IF prompt = "none" THEN Field("none", NoReply)
                         ELSE Field("file", Reply(prompt, 0)),
        !.companion_name = name,
        !.findings = findings,
        !.libraryId = ShapedId(shape)]

\* The files picked for import: text that is not JSON; JSON that is not an
\* object; objects with every combination of the signature fields; objects
\* with findings; objects with every shape of _libraryId
ImportFiles ==
    {JsonFile(FALSE, NoProfile)}
    \cup {JsonFile(TRUE, [NoProfile EXCEPT !.kind = kind, !.source = Reply("file", 0)]) :
            kind \in {"null", "number", "string", "array"}}
    \cup {JsonFile(TRUE, ImportObject(prompt, name, FALSE, "missing")) :
            prompt \in PromptShapes, name \in {"", "Ada"}}
    \cup {JsonFile(TRUE, ImportObject("clean", name, TRUE, "missing")) : name \in {"", "Ada"}}
    \cup {JsonFile(TRUE, ImportObject("clean", "Bea", FALSE, shape)) : shape \in IdShapes}

\* The files that differ in _libraryId only, one that is no profile, and
\* another profile with the same well-formed _libraryId
SaveFiles ==
    {JsonFile(TRUE, ImportObject("clean", "Bea", FALSE, shape)) : shape \in IdShapes}
    \cup {JsonFile(TRUE, ImportObject("none", "", FALSE, "uuid"))}
    \cup {JsonFile(TRUE, ImportObject("clean", "Ada", FALSE, "uuid"))}

\* The library is empty and nothing has been uploaded
InitImport ==
    /\ data = NoFile
    /\ conversations = <<>>
    /\ selectedConvoIds = {}
    /\ uploadStatus = "none"
    /\ rendered = {}
    /\ apiKey = ""
    /\ extractionAborted = FALSE
    /\ companionProfile = NoProfile
    /\ runs = <<>>
    /\ library = {}
    /\ issued = 0
    /\ exported = NoDownload
    /\ imports = 0
    /\ picked = NoPick
    /\ dialog = NoDialog
    /\ chatHistory = <<>>
    /\ chatRequests = <<>>

\* Imports of every file, and removals
NextImport ==
    \/ \E file \in ImportFiles, acceptsWarning, acceptsContinuity, ok \in BOOLEAN :
          ImportProfile(file, acceptsWarning, acceptsContinuity, ok)
    \/ \E stored \in library, confirmed \in BOOLEAN : RemoveFromLibrary(stored.id, confirmed)

SpecImport == InitImport /\ [][NextImport]_vars

\* A one-message export is waiting to be uploaded
InitSave ==
    /\ data = ChunkFile(1, <<"big">>, FALSE, TRUE)
    /\ conversations = <<>>
    /\ selectedConvoIds = {}
    /\ uploadStatus = "none"
    /\ rendered = {}
    /\ apiKey = ""
    /\ extractionAborted = FALSE
    /\ companionProfile = NoProfile
    /\ runs = <<>>
    /\ library = {}
    /\ issued = 0
    /\ exported = NoDownload
    /\ imports = 0
    /\ picked = NoPick
    /\ dialog = NoDialog
    /\ chatHistory = <<>>
    /\ chatRequests = <<>>

\* One extraction that saves its profile, imports of the files that differ
\* in _libraryId, and removals
NextSave ==
    \/ UploadJson
    \/ SaveApiKey
    \/ SelectAll
    \/ StartOnce
    \/ \E r \in RunIds : ChunkReturn(r, "object")
    \/ \E r \in RunIds : TimelineReturn(r, "array")
    \/ \E r \in RunIds : PromptReturn(r, "text")
    \/ \E r \in RunIds, ok \in BOOLEAN : SaveReturn(r, ok)
    \/ \E file \in SaveFiles, acceptsContinuity, ok \in BOOLEAN :
          ImportProfile(file, FALSE, acceptsContinuity, ok)
    \/ \E stored \in library, confirmed \in BOOLEAN : RemoveFromLibrary(stored.id, confirmed)

SpecSave == InitSave /\ [][NextSave]_vars


-----------------------------------------------------------------------------
(* The round-trip specification: one extraction over a short export, with  *)
(* or without timestamps, saves its profile; stored profiles are exported, *)
(* removed, and the exported file is imported again.                       *)

IsRoundTripFile(d) ==
    \E n \in 1..MaxReplyMsgs, timed \in BOOLEAN :
        d = ChunkFile(n, [u \in 1..n |-> "small"], FALSE, timed)

InitRoundTrip ==
    /\ IsRoundTripFile(data)
    /\ conversations = <<>>
    /\ selectedConvoIds = {}
    /\ uploadStatus = "none"
    /\ rendered = {}
    /\ apiKey = ""
    /\ extractionAborted = FALSE
    /\ companionProfile = NoProfile
    /\ runs = <<>>
    /\ library = {}
    /\ issued = 0
    /\ exported = NoDownload
    /\ imports = 0
    /\ picked = NoPick
    /\ dialog = NoDialog
    /\ chatHistory = <<>>
    /\ chatRequests = <<>>

\* The downloaded file is picked for import
ImportExported(acceptsWarning, acceptsContinuity, ok) ==
    /\ exported # NoDownload
    /\ ImportProfile(exported, acceptsWarning, acceptsContinuity, ok)

NextRoundTrip ==
    \/ UploadJson
    \/ SaveApiKey
    \/ SelectAll
    \/ StartOnce
    \/ \E r \in RunIds, form \in {"object", "prose"} : ChunkReturn(r, form)
    \/ \E r \in RunIds : TimelineReturn(r, "array")
    \/ \E r \in RunIds, form \in PromptForms : PromptReturn(r, form)
    \/ \E r \in RunIds, ok \in BOOLEAN : SaveReturn(r, ok)
    \/ \E stored \in library : ExportFromLibrary(stored.id)
    \/ \E stored \in library, confirmed \in BOOLEAN : RemoveFromLibrary(stored.id, confirmed)
    \/ \E acceptsWarning, acceptsContinuity, ok \in BOOLEAN :
          ImportExported(acceptsWarning, acceptsContinuity, ok)

SpecRoundTrip == InitRoundTrip /\ [][NextRoundTrip]_vars

-----------------------------------------------------------------------------
(* The candidates specification: a Character.AI export of two turns is     *)
(* uploaded.  The first turn is a plain human turn; the second has 1 to    *)
(* MaxCandidates candidates, each with a text of its own, and a            *)
(* primary_candidate_id that is missing (0), the id of one of the          *)
(* candidates, or an id that none of them has.                             *)

\* The page as it is when it has loaded, before any file is chosen
PageLoaded ==
    /\ conversations = <<>>
    /\ selectedConvoIds = {}
    /\ uploadStatus = "none"
    /\ rendered = {}
    /\ apiKey = ""
    /\ extractionAborted = FALSE
    /\ companionProfile = NoProfile
    /\ runs = <<>>
    /\ library = {}
    /\ issued = 0
    /\ exported = NoDownload
    /\ imports = 0
    /\ picked = NoPick
    /\ dialog = NoDialog
    /\ chatHistory = <<>>
    /\ chatRequests = <<>>

\* A turn whose candidates have the ids 1, 2, ... and texts of the given kinds
CandidateTurn(human, kinds, primary) ==
    [NoEntry EXCEPT
        !.has = {"is_human", "candidates"}, !.is_human = human,
        !.candidates = [j \in 1..Len(kinds) |->
                            [candidate_id |-> j, raw_content |-> KindText(kinds[j], 10 + j)]],
        !.primary_candidate_id = primary]

IsTurnsFile(d) ==
    \E n \in 1..MaxCandidates : \E kinds \in [1..n -> TextKinds] :
        \E primary \in 0..(n + 1), human \in BOOLEAN :
            d = ObjectFile("turns", <<CaiTurn(TRUE, "word", 0, FALSE),
                                     CandidateTurn(human, kinds, primary)>>)

InitTurns == IsTurnsFile(data) /\ PageLoaded

NextTurns == UploadJson

SpecTurns == InitTurns /\ [][NextTurns]_vars

-----------------------------------------------------------------------------
(* The walk specification: one export of a single conversation is handed   *)
(* to an upload handler.  The mapping is one of the well-formed trees,     *)
(* or such a tree in which the children list of one node (from) has one    *)
(* more entry, the id of that node or of a node before it (to), put last   *)
(* or put first in the list.                                               *)

Linked(convo, from, to, last) ==
    [convo EXCEPT !.mapping[from].children =
                      IF last THEN Append(@, to) ELSE <<to>> \o @]

IsWalkFile(d) ==
    \E n \in 1..MaxNodes, descending \in BOOLEAN :
      \E parent \in [2..n -> 1..MaxNodes] :
        /\ \A i \in 2..n : parent[i] < i
        /\ LET tree == TreeConvo(n, parent, descending, 1, "plain", "asc")
           IN  \/ d = ArrayFile(<<tree>>)
               \/ \E from \in 1..n, to \in 1..n, last \in BOOLEAN :
                     /\ to <= from
                     /\ d = ArrayFile(<<Linked(tree, from, to, last)>>)

InitWalk == IsWalkFile(data) /\ PageLoaded

NextWalk == UploadJson

SpecWalk == InitWalk /\ [][NextWalk]_vars

-----------------------------------------------------------------------------
(* The upload specification: files are uploaded one after another, with    *)
(* selections and an extraction in between.  The files are an export of    *)
(* two conversations, one of a single conversation, a Character.AI export  *)
(* with no turn, a JSON array of one message, and an empty JSON array, in  *)
(* which processJsonFile finds no message.                                 *)

UploadFiles ==
    {ChunkFile(2, <<"small", "small">>, TRUE, TRUE),
     ChunkFile(1, <<"small">>, FALSE, TRUE),
     EmptyTurnsFile,
     ArrayFile(<<GenericEntry("user", "word", 0)>>),
     NoFile}

\* routeFileUpload for a .json file, whatever was uploaded before
UploadNext(d) == ProcessJsonFile(d)

InitUploads == data = NoFile /\ PageLoaded

NextUploads ==
    \/ \E d \in UploadFiles : UploadNext(d)
    \/ SaveApiKey
    \/ SelectAll
    \/ SelectNone
    \/ \E id \in RenderedIds, checked \in BOOLEAN : ToggleConvo(id, checked)
    \/ StartExtraction

SpecUploads == InitUploads /\ [][NextUploads]_vars

-----------------------------------------------------------------------------
(* The scan specification: a profile file is picked for import.  The file  *)
(* is an object that holds one string or number at the end of a chain of   *)
(* up to MaxDepth properties and array indexes, strings that match a       *)
(* pattern in the array slots before it, and at the top level a            *)
(* companion_name and a systemPrompt, or not.                              *)

ScanKeys == {"a", "systemPrompt", ""}

Step(kind, key, index) == [kind |-> kind, key |-> key, index |-> index]

ScanSteps ==
    {Step("key", k, 0) : k \in ScanKeys} \cup {Step("index", "", i) : i \in 0..1}

\* The value at the end of the chain: a string of 30 or 31 characters that
\* matches a pattern or not, or a number
ProbeLeaves ==
    {StringValue(length, suspicious, 1) : length \in {30, 31}, suspicious \in BOOLEAN}
        \cup {NumberValue}

\* The string in slot i of an array at a depth
Filler(depth, i) == StringValue(31, TRUE, 10 * depth + i)

RECURSIVE Nest(_, _, _)
Nest(steps, leaf, depth) ==
    IF steps = <<>> THEN leaf
    ELSE LET inner == Nest(Tail(steps), leaf, depth + 1)
         IN  IF Head(steps).kind = "key"
             THEN ObjectValue(<<Head(steps).key>>, <<inner>>)
             ELSE ArrayValue([i \in 1..Head(steps).index |-> Filler(depth, i)] \o <<inner>>)

ProfileValue(steps, leaf, named, prompted) ==
    LET name == IF named THEN <<<<"companion_name", StringValue(3, FALSE, 2)>>>> ELSE <<>>
        prompt == IF prompted /\ Head(steps).key # "systemPrompt"
                  THEN <<<<"systemPrompt", StringValue(31, TRUE, 3)>>>> ELSE <<>>
        entries == name \o prompt \o <<<<Head(steps).key, Nest(Tail(steps), leaf, 1)>>>>
    IN  ObjectValue([k \in 1..Len(entries) |-> entries[k][1]],
                    [k \in 1..Len(entries) |-> entries[k][2]])

IsScanFile(d) ==
    \E n \in 1..MaxDepth : \E steps \in [1..n -> ScanSteps] :
        \E leaf \in ProbeLeaves, named \in BOOLEAN, prompted \in BOOLEAN :
            /\ steps[1].kind = "key"
            /\ d = ProfileValue(steps, leaf, named, prompted)

InitScan ==
    /\ IsScanFile(data)
    /\ conversations = <<>>
    /\ selectedConvoIds = {}
    /\ uploadStatus = "none"
    /\ rendered = {}
    /\ apiKey = ""
    /\ extractionAborted = FALSE
    /\ companionProfile = NoProfile
    /\ runs = <<>>
    /\ library = {}
    /\ issued = 0
    /\ exported = NoDownload
    /\ imports = 0
    /\ picked = NoPick
    /\ dialog = NoDialog
    /\ chatHistory = <<>>
    /\ chatRequests = <<>>

NextScan == OpenImport

SpecScan == InitScan /\ [][NextScan]_vars

-----------------------------------------------------------------------------
(* The text log specification: a log of up to MaxLines lines is uploaded.  *)

\* The labels of the logs: an alias in two spellings, one of them written
\* after a blank, and two names
LogLabels ==
    {Label("you", FALSE, FALSE), Label("you", TRUE, TRUE),
     Label("ann", TRUE, FALSE), Label("bob", TRUE, FALSE)}

\* Line k of a log: a speaker line with a word of text, a speaker line whose
\* text is one blank, a line of text with no label, or a line of blanks
LogLines(k) ==
    {Line(label, Txt(k, 1)) : label \in LogLabels}
    \cup {Line(Label("ann", TRUE, FALSE), Sp(1)),
          Line(NoLabel, Cat(Sp(1), Txt(k, 1))),
          Line(NoLabel, Sp(2))}

\* The logs of n lines
RECURSIVE Logs(_)
Logs(n) ==
    IF n = 0 THEN {<<>>}
    ELSE {Append(log, line) : log \in Logs(n - 1), line \in LogLines(n)}

InitText ==
    /\ data \in UNION {Logs(n) : n \in 1..MaxLines}
    /\ conversations = <<>>
    /\ selectedConvoIds = {}
    /\ uploadStatus = "none"
    /\ rendered = {}
    /\ apiKey = ""
    /\ extractionAborted = FALSE
    /\ companionProfile = NoProfile
    /\ runs = <<>>
    /\ library = {}
    /\ issued = 0
    /\ exported = NoDownload
    /\ imports = 0
    /\ picked = NoPick
    /\ dialog = NoDialog
    /\ chatHistory = <<>>
    /\ chatRequests = <<>>

\* routeFileUpload for a .txt or .md file holding `data`
UploadText ==
    /\ uploadStatus = "none"
    /\ ProcessTextFile(data)

NextText == UploadText

SpecText == InitText /\ [][NextText]_vars

-----------------------------------------------------------------------------
(* The chat specification: one extraction with well-formed replies shows   *)
(* its results, then messages of lengths around the cap are sent.          *)

\* The values of the chat input: empty, blanks, one character, the cap, the
\* cap between blanks, one over the cap, twice the cap
ChatInputs ==
    {<<>>, Sp(3), Txt(7, 1), Txt(7, ChatMessageCap),
     Cat(Sp(1), Cat(Txt(7, ChatMessageCap), Nl(1))),
     Txt(7, ChatMessageCap + 1), Txt(7, 2 * ChatMessageCap)}

NextChat ==
    \/ UploadJson
    \/ SaveApiKey
    \/ SelectAll
    \/ StartOnce
    \/ \E r \in RunIds : ChunkReturn(r, "object")
    \/ \E r \in RunIds : TimelineReturn(r, "array")
    \/ \E r \in RunIds : PromptReturn(r, "text")
    \/ \E r \in RunIds, ok \in BOOLEAN : SaveReturn(r, ok)
    \/ \E r \in RunIds : ShowResults(r)
    \/ \E value \in ChatInputs : SendMessage(value)
    \/ \E q \in 1..Len(chatRequests), form \in {"text", "empty"} : ChatReturn(q, form)
    \/ \E q \in 1..Len(chatRequests) : ChatFails(q)

SpecChat == InitSave /\ [][NextChat]_vars

-----------------------------------------------------------------------------
(* Claims about the parsers (SpecParse).                                   *)

Uploaded == uploadStatus = "success"

\* The tree parser handled the file
TreeParsed == Uploaded /\ FirstHas(data, "mapping")

\* The source conversation of a returned tree conversation
SourceOf(c) == data.items[c.id + 1]

\* The nodes from `id` down along last children, defined on the mapping alone
RECURSIVE LastChildBranch(_, _, _)
LastChildBranch(mapping, id, fuel) ==
    IF id = 0 \/ fuel = 0 THEN {}
    ELSE LET kids == mapping[id].children
         IN  {id} \cup IF kids = <<>> THEN {}
                       ELSE LastChildBranch(mapping, kids[Len(kids)], fuel - 1)

MessageIds(messages) == UNION {TxtIds(messages[k].text) : k \in 1..Len(messages)}

\* The nodes whose message the parser is to keep: role user or assistant and
\* a string part that is not blank
Speaks(node) ==
    /\ node.message.present
    /\ node.message.role \in {"user", "assistant"}
    /\ \E k \in 1..Len(node.message.parts) :
          /\ node.message.parts[k].isString
          /\ TxtIds(node.message.parts[k].s) # {}

\* C1: in parseConversations the walk from the root moves, at every visited
\* node that has children, to the last child and to no other; the messages of
\* a conversation are those of the nodes on that branch, and no message of a
\* node on a sibling branch appears.
C1_LastChildWalk ==
    TreeParsed =>
        /\ \A k \in 1..Len(data.items) :
              LET mapping == data.items[k].mapping
                  path == WalkPath(mapping, FindRoot(mapping, 1), Len(mapping) + 1)
              IN  /\ path # <<>> /\ path[1] = 1
                  /\ \A j \in 1..Len(path) :
                        LET kids == mapping[path[j]].children
                        IN  IF kids = <<>> THEN j = Len(path)
                            ELSE j < Len(path) /\ path[j + 1] = kids[Len(kids)]
        /\ \A k \in 1..Len(conversations) :
              LET c == conversations[k]
                  mapping == SourceOf(c).mapping
                  branch == LastChildBranch(mapping, 1, Len(mapping))
              IN  MessageIds(c.messages) = {i \in branch : Speaks(mapping[i])}

\* C1 witness: a parsed conversation whose root has three children, each with
\* a message of its own; only the last child's is in the result.
C1_Witness ==
    /\ TreeParsed
    /\ \E k \in 1..Len(conversations) :
          LET c == conversations[k]
              mapping == SourceOf(c).mapping
          IN  /\ Len(mapping[1].children) = 3
              /\ \A j \in 1..3 : Speaks(mapping[mapping[1].children[j]])
              /\ MessageIds(c.messages) \cap {2, 3, 4} = {mapping[1].children[3]}

NonDecreasing(messages) ==
    \A k \in 1..(Len(messages) - 1) : messages[k].timestamp <= messages[k + 1].timestamp

\* C2 (as claimed): whatever parser handled the file, the messages of every
\* returned conversation are in non-decreasing timestamp order, and every
\* message has role user or assistant and a non-empty text.
C2_SortedRolesText ==
    Uploaded =>
        \A k \in 1..Len(conversations) :
            LET messages == conversations[k].messages
            IN  /\ NonDecreasing(messages)
                /\ \A j \in 1..Len(messages) :
                      /\ messages[j].role \in {"user", "assistant"}
                      /\ messages[j].text # <<>>

\* C3 (as claimed): after a successful upload no conversation of the list has
\* an empty messages array.
C3_NoEmptyConversation ==
    Uploaded => \A k \in 1..Len(conversations) : Len(conversations[k].messages) > 0

ConvoIds == {conversations[k].id : k \in 1..Len(conversations)}

\* C4 (as claimed): the ids of the returned conversations are unique and are
\* exactly 0..k-1 for the k returned conversations.
C4_DenseIds ==
    Uploaded =>
        /\ Cardinality(ConvoIds) = Len(conversations)
        /\ ConvoIds = 0..(Len(conversations) - 1)

\* C4 (amended): the ids of the returned conversations are unique; a tree
\* conversation's id is its index in the source array (its dates are those of
\* the source conversation at that index), so the ids are 0..k-1 when no
\* source conversation is dropped; a flat parser returns at most one
\* conversation, with id 0.
C4_SourceIndexIds ==
    Uploaded =>
        /\ Cardinality(ConvoIds) = Len(conversations)
        /\ TreeParsed =>
              /\ \A k \in 1..Len(conversations) :
                    LET c == conversations[k]
                    IN  /\ c.id \in 0..(Len(data.items) - 1)
                        /\ c.created = SourceOf(c).create_time
                        /\ c.updated = SourceOf(c).update_time
                        /\ MessageIds(c.messages) # {}
              /\ Len(conversations) = Len(data.items)
                    => ConvoIds = 0..(Len(conversations) - 1)
        /\ ~TreeParsed => ConvoIds \subseteq {0}

\* C4 witness: two conversations are returned, with ids 0 and 2: the source
\* conversation at index 1 had no message and was dropped.
C4_Witness ==
    /\ TreeParsed
    /\ Len(data.items) = 3
    /\ ConvoIds = {0, 2}

-----------------------------------------------------------------------------
(* Claims about sampling and chunking (SpecChunk).                         *)

\* The id that marks the text of a message of the generated exports
MsgId(m) == CHOOSE u \in TxtIds(m.text) : TRUE

\* The number of characters of message content marked u in a string
RECURSIVE Chars(_, _)
Chars(s, u) ==
    IF s = <<>> THEN 0
    ELSE (IF Head(s).c = "txt" /\ Head(s).id = u THEN Head(s).n ELSE 0)
         + Chars(Tail(s), u)

\* The position of the literal id in a string that holds it
LitAt(s, id) == CHOOSE k \in 1..Len(s) : s[k].c = "lit" /\ s[k].id = id

BeforeLit(s, id) == SubSeq(s, 1, LitAt(s, id) - 1)
AfterLit(s, id) == SubSeq(s, LitAt(s, id) + 1, Len(s))

RECURSIVE IsSubsequence(_, _)
IsSubsequence(sub, s) ==
    IF sub = <<>> THEN TRUE
    ELSE IF s = <<>> THEN FALSE
    ELSE IF Head(sub) = Head(s) THEN IsSubsequence(Tail(sub), Tail(s))
    ELSE IsSubsequence(sub, Tail(s))

\* C5: sampling is applied iff the formatted text is strictly longer than
\* MAX_TOTAL_CHARS; a text of at most that length goes to chunking as it is,
\* a longer one is replaced by the early / middle / recent text.
C5_SamplingIffOverCeiling ==
    \A r \in RunIds :
        LET run == runs[r] IN
        /\ run.sample.applied <=> StrLen(run.unsampled) > MAX_TOTAL_CHARS
        /\ StrLen(run.unsampled) <= MAX_TOTAL_CHARS =>
              /\ run.sample.formatted = run.unsampled
              /\ run.chunks = SplitIntoChunks(run.unsampled)
        /\ StrLen(run.unsampled) > MAX_TOTAL_CHARS =>
              /\ \E k \in 1..Len(run.sample.formatted) :
                    run.sample.formatted[k] = MiddleMarker[1]
              /\ \E k \in 1..Len(run.sample.formatted) :
                    run.sample.formatted[k] = RecentMarker[1]

\* A run whose formatted text has exactly MAX_TOTAL_CHARS characters
C5_Witness ==
    \E r \in RunIds :
        /\ StrLen(runs[r].unsampled) = MAX_TOTAL_CHARS
        /\ ~runs[r].sample.applied
        /\ Join(runs[r].chunks, Nl(2)) = runs[r].unsampled

\* C6: when sampling applies to n >= 1 messages, the text before the middle
\* marker is the first n \div 10 messages, the text after the recent marker
\* is the last (3 * n) \div 10 messages, and the sampled middle is a
\* subsequence of the messages between them.
C6_SampleSegments ==
    \A r \in RunIds :
        runs[r].sample.applied =>
            LET all == runs[r].allMessages
                n == Len(all)
                earlyCount == n \div 10
                recentCount == (3 * n) \div 10
                formatted == runs[r].sample.formatted
                between == BeforeLit(AfterLit(formatted, 3), 4)
            IN  /\ n >= 1
                /\ BeforeLit(formatted, 3) =
                      Cat(FormatMessages(SubSeq(all, 1, earlyCount)), Nl(2))
                /\ AfterLit(formatted, 4) =
                      Cat(Nl(2), FormatMessages(SubSeq(all, n - recentCount + 1, n)))
                /\ between =
                      Cat(Nl(2), Cat(FormatMessages(runs[r].sample.sampledMiddle), Nl(2)))
                /\ IsSubsequence(runs[r].sample.sampledMiddle,
                                 SubSeq(all, earlyCount + 1, n - recentCount))

\* The messages a run keeps: all of them, or those of the three segments
KeptIds(run) ==
    IF run.sample.applied
    THEN {MsgId(m) : m \in
            {run.sample.early[k] : k \in 1..Len(run.sample.early)}
            \cup {run.sample.sampledMiddle[k] : k \in 1..Len(run.sample.sampledMiddle)}
            \cup {run.sample.recent[k] : k \in 1..Len(run.sample.recent)}}
    ELSE {MsgId(run.allMessages[k]) : k \in 1..Len(run.allMessages)}

\* C7: the chunks hold the text of each kept message once and of no other
\* message, and the messages follow one another in chronological order (the
\* order of allMessages) from the first chunk to the last.
C7_EachKeptMessageOnce ==
    \A r \in RunIds :
        LET run == runs[r]
            all == run.allMessages
            text == Flatten(run.chunks)
            content == SelectSeq(text, LAMBDA x : x.c = "txt")
            place(u) == CHOOSE k \in 1..Len(all) : MsgId(all[k]) = u
        IN  /\ \A k \in 1..Len(all) :
                  Chars(text, MsgId(all[k])) =
                      IF MsgId(all[k]) \in KeptIds(run)
                      THEN Chars(all[k].text, MsgId(all[k])) ELSE 0
            /\ \A i, j \in 1..Len(content) :
                  i < j => place(content[i].id) <= place(content[j].id)

\* C8: the chunks joined by the blank-line delimiter are the formatted text
\* handed to the splitter, and every chunk after the first starts where a
\* message (or a period marker) starts, never inside a message's text.
C8_ChunksRebuildText ==
    \A r \in RunIds :
        /\ Join(runs[r].chunks, Nl(2)) = runs[r].sample.formatted
        /\ \A k \in 2..Len(runs[r].chunks) :
              /\ runs[r].chunks[k] # <<>>
              /\ runs[r].chunks[k][1].c = "lit"

\* C9: no chunk is empty, and a chunk longer than CHUNK_SIZE is exactly one
\* whole formatted message.
C9_ChunkSizes ==
    \A r \in RunIds :
        \A k \in 1..Len(runs[r].chunks) :
            LET chunk == runs[r].chunks[k] IN
            /\ chunk # <<>>
            /\ \/ StrLen(chunk) <= CHUNK_SIZE
               \/ \E j \in 1..Len(runs[r].allMessages) :
                     chunk = FormatMessage(runs[r].allMessages[j])

-----------------------------------------------------------------------------
(* Claims about the extraction run (Spec).                                 *)

CallsOfKind(run, kind) == {k \in 1..Len(run.calls) : run.calls[k].kind = kind}

\* The chunk loop of the run is over: every chunk's result has been pushed
LoopDone(run) == Len(run.results) = Len(run.chunks)

\* C10: a run of one chunk never issues a merge request, and its profile is
\* the parsed reply of the one chunk request; a run of N > 1 chunks issues
\* one merge request, as soon as and not before the N chunk requests have
\* returned, and the request carries the N replies in chunk order.
C10_MergeOnlyForSeveralChunks ==
    \A r \in RunIds :
        LET run == runs[r]
            N == Len(run.chunks)
            merges == CallsOfKind(run, "merge")
        IN  /\ N = 1 =>
                /\ merges = {}
                /\ LoopDone(run) =>
                      /\ run.calls[1].kind = "chunk"
                      /\ run.profile.kind = parseJSON(run.calls[1].reply).kind
                      /\ run.profile.source = run.calls[1].reply
            /\ N > 1 =>
                /\ Cardinality(merges) = IF LoopDone(run) THEN 1 ELSE 0
                /\ \A m \in merges :
                      /\ m = N + 1
                      /\ \A i \in 1..N :
                            /\ run.calls[i].kind = "chunk"
                            /\ run.calls[i].index = i
                            /\ run.calls[i].reply # NoReply
                      /\ run.calls[m].input = [i \in 1..N |-> run.calls[i].reply]

\* A run of three chunks whose merge request has returned, its reply parsed
\* into the profile
C10_Witness ==
    \E r \in RunIds :
        /\ Len(runs[r].chunks) = 3
        /\ CallsOfKind(runs[r], "merge") # {}
        /\ runs[r].pc = "timeline"
        /\ runs[r].profile.source = runs[r].calls[4].reply
        /\ runs[r].calls[1].reply # runs[r].calls[2].reply

-----------------------------------------------------------------------------
(* Claims about cancellation (SpecCancel).                                 *)

\* A cancelled run stops where it is: it has issued no request beyond the
\* chunk requests that returned, and saved nothing
CancelledRunsIdle ==
    \A r \in RunIds :
        runs[r].pc = "cancelled" =>
            /\ Len(runs[r].calls) = Len(runs[r].results)
            /\ \A k \in 1..Len(runs[r].calls) : runs[r].calls[k].kind = "chunk"
            /\ Len(runs[r].results) < Len(runs[r].chunks)
            /\ ~runs[r].saved

\* Chunk request i < N of run r returns while the abort flag is up
ReturnsUnderAbort(r) ==
    /\ runs[r].pc = "chunk"
    /\ extractionAborted
    /\ Len(runs'[r].results) = Len(runs[r].results) + 1
    /\ Len(runs'[r].results) < Len(runs[r].chunks)

\* C11: when the abort flag is up as chunk request i returns, i < N, request
\* i + 1 is not issued and the run is cancelled; a cancelled run issues no
\* further request of any kind, assigns no companionProfile and saves nothing.
C11_CancelBeforeNextChunk ==
    /\ []CancelledRunsIdle
    /\ [][\A r \in RunIds :
            /\ ReturnsUnderAbort(r) =>
                  /\ runs'[r].pc = "cancelled"
                  /\ Len(runs'[r].calls) = Len(runs[r].calls)
                  /\ companionProfile' = companionProfile
                  /\ library' = library
            /\ runs[r].pc = "cancelled" => runs'[r] = runs[r]]_vars

\* A run of three chunks cancelled between chunk 2 and chunk 3
C11_Witness ==
    \E r \in RunIds :
        /\ runs[r].pc = "cancelled"
        /\ Len(runs[r].chunks) = 3
        /\ Len(runs[r].results) = 2
        /\ companionProfile = NoProfile

\* C12: when the abort flag is up as chunk request i returns, for any i in
\* 1..N (the last chunk and a run of one chunk included), the reply is taken,
\* no further request is issued, the run is cancelled and no profile is
\* assigned.
C12_CancelDuringAnyChunk ==
    [][\A r \in RunIds :
          (/\ runs[r].pc = "chunk"
           /\ extractionAborted
           /\ Len(runs'[r].results) = Len(runs[r].results) + 1)
          => /\ runs'[r].pc = "cancelled"
             /\ Len(runs'[r].calls) = Len(runs[r].calls)
             /\ companionProfile' = companionProfile]_vars

-----------------------------------------------------------------------------
(* Claims about failing requests (Spec).                                   *)

\* The requests of a run that callOpenRouter failed
FailedCalls(run) ==
    {k \in 1..Len(run.calls) : run.calls[k].reply.form = "error"}

\* The awaited request of run r fails in this step
FailsNow(r) ==
    /\ runs[r].pc \in {"chunk", "merge", "timeline", "prompt"}
    /\ Len(runs[r].calls) \in FailedCalls(runs'[r])

\* A run that failed stays as it is
FailedRunsStay ==
    \A r \in RunIds : runs[r].pc = "failed" => runs'[r] = runs[r]

-----------------------------------------------------------------------------
(* Claims about what a completed run records.                              *)

\* The messages of the conversations selected when the run began
SelectedMessages(run) ==
    LET selected == SelectedConversations(conversations, run.selectedIds)
    IN  Flatten([k \in 1..Len(selected) |-> selected[k].messages])

\* The positions, in the list of conversations, of the selected ones
SelectedPositions(run) ==
    {k \in 1..Len(conversations) : conversations[k].id \in run.selectedIds}

\* The step that assigns companionProfile for run r
Assembles(r) == runs[r].pc = "prompt" /\ runs'[r].pc = "save"

\* C14: in every completed run the recorded stats, message count and
\* conversation count are the ones the program computes from the selected
\* conversations, whatever the replies carry under those names.
C14_CountsAreLocal ==
    [][\A r \in RunIds :
          Assembles(r) =>
              /\ companionProfile'.stats =
                    Field("pipeline", computeStats(SortByTimestamp(SelectedMessages(runs[r]))))
              /\ companionProfile'.sourceMessages =
                    Field("pipeline", Len(SelectedMessages(runs[r])))
              /\ companionProfile'.sourceConversations =
                    Field("pipeline", Cardinality(SelectedPositions(runs[r])))]_vars

\* A completed run whose profile comes from a reply that carried its own
\* stats and counts, over two conversations
C14_Witness ==
    \E r \in RunIds :
        /\ runs[r].pc = "done"
        /\ companionProfile.source.form = "claiming"
        /\ companionProfile.source = runs[r].profile.source
        /\ Cardinality(runs[r].selectedIds) = 2
        /\ companionProfile.sourceMessages.value = 2
        /\ companionProfile.stats.value.humanMessages = 1
        /\ companionProfile.stats.value.firstMessage = "Date"

-----------------------------------------------------------------------------
(* Claims about the companion library.                                     *)

\* A string of five groups of 8, 4, 4, 4 and 12 hexadecimal digits
UuidShaped(id) ==
    /\ id.type = "string"
    /\ id.groups = <<8, 4, 4, 4, 12>>
    /\ id.digits # "other"

\* Every record's key is UUID-shaped and is its profile's _libraryId
KeysAreUuids ==
    \A stored \in library : UuidShaped(stored.id) /\ stored.profile.libraryId = stored.id

\* What saveProfileToDB does with the _libraryId of the profile it is given
SavedUnder(profile) ==
    IF UuidShaped(profile.libraryId)
    THEN /\ issued' = issued
         /\ \E stored \in library' :
               stored.id = profile.libraryId /\ stored.profile.libraryId = profile.libraryId
    ELSE /\ issued' = issued + 1
         /\ \E stored \in library' \ library :
               /\ stored.id = randomUUID(issued')
               /\ \A old \in library : old.id # stored.id

\* An import that reached the store, or a run's save that did
ImportSaves == imports' = imports + 1 /\ <<library, issued>>' # <<library, issued>>
RunSaves(r) == runs[r].pc = "save" /\ runs'[r].saved

\* C15: a profile is saved under its own _libraryId when that is a UUID-shaped
\* string, else under a freshly generated UUID; every record's key is
\* UUID-shaped and equals its profile's _libraryId.
C15_KeysAreUuids ==
    /\ []KeysAreUuids
    /\ [][/\ ImportSaves => SavedUnder(picked'.file.value)
          /\ \A r \in RunIds : RunSaves(r) => SavedUnder(runs[r].saving)]_vars

\* The store holds a run's profile under a generated key, an imported profile
\* under the key its file carried, and a third whose file carried a string
\* that is no UUID
C15_Witness ==
    /\ \E r \in RunIds : runs[r].saved
    /\ \E stored \in library : stored.id = ShapedId("upper")
    /\ picked.file.value.libraryId = ShapedId("word")
    /\ Cardinality(library) = 3
    /\ issued = 2

\* The picked file parses to a value with a systemPrompt or a companion_name
HasSignature(file) ==
    /\ file.valid
    /\ \/ file.value.systemPrompt.from # "none" /\ file.value.systemPrompt.value.form # "empty"
       \/ file.value.companion_name # ""

\* The step of importProfile's handler
Imports == imports' = imports + 1

\* C16: an import changes the store only if the file has a signature field
\* and either the scan found nothing or the user accepted the warning; a file
\* that does not parse or lacks both fields, or a user who declines, leaves
\* the store as it was.
C16_ImportOnlyWhenAccepted ==
    [][Imports =>
          /\ library' # library =>
                /\ HasSignature(picked'.file)
                /\ ~scanProfile(picked'.file.value) \/ picked'.acceptsWarning
          /\ ~HasSignature(picked'.file) => library' = library
          /\ scanProfile(picked'.file.value) /\ ~picked'.acceptsWarning => library' = library
          /\ ~picked'.acceptsContinuity => library' = library]_vars

\* A profile with findings is in the store after the user accepted the
\* warning
C16_Witness ==
    /\ imports > 0
    /\ picked.file.value.findings
    /\ picked.acceptsWarning
    /\ \E stored \in library :
          stored.profile = [picked.file.value EXCEPT !.libraryId = stored.id]

\* A property's value, whoever set it
ValueOf(field) == IF field.from = "none" THEN <<>> ELSE <<field.value>>

\* Two profiles have the same properties with the same values, except
\* possibly for _libraryId
EqualButId(a, b) ==
    /\ a.kind = b.kind
    /\ a.source = b.source
    /\ a.hasTimeline = b.hasTimeline
    /\ a.companion_name = b.companion_name
    /\ a.findings = b.findings
    /\ ValueOf(a.stats) = ValueOf(b.stats)
    /\ ValueOf(a.systemPrompt) = ValueOf(b.systemPrompt)
    /\ ValueOf(a.extractedAt) = ValueOf(b.extractedAt)
    /\ ValueOf(a.sourceMessages) = ValueOf(b.sourceMessages)
    /\ ValueOf(a.sourceConversations) = ValueOf(b.sourceConversations)

\* The downloaded file is the export of the stored record `original`
ExportOf(original) ==
    /\ exported # NoDownload
    /\ exported = JsonFile(TRUE, Stringify(original.profile))

\* Importing the export of a stored profile, the user accepting, leaves a
\* stored profile equal to the original but for its id
RoundTripKeeps ==
    \A original \in library :
        /\ ExportOf(original)
        /\ ~scanProfile(original.profile)
        /\ Imports /\ picked'.file = exported /\ picked'.acceptsContinuity
        => \E stored \in library' : EqualButId(stored.profile, original.profile)

\* The export of a stored profile passes importProfile's signature test
ExportIsProfile ==
    \A stored \in library :
        ~scanProfile(stored.profile) =>
            HasSignature(JsonFile(TRUE, Stringify(stored.profile)))

\* C17: exporting a stored profile without findings and importing the file
\* again, the user confirming, yields a stored profile equal to the original
\* except possibly for its id.
C17_RoundTrip == []ExportIsProfile /\ [][RoundTripKeeps]_vars

-----------------------------------------------------------------------------
(* Claims about plain text logs (SpecText).                                *)

\* The lines that begin with a speaker label, and the distinct labels
LabelLines == {k \in 1..Len(data) : data[k].label # NoLabel}
NameAt(k) == [data[k].label EXCEPT !.padded = FALSE]
Labels == {NameAt(k) : k \in LabelLines}
LinesOf(name) == {k \in LabelLines : NameAt(k) = name}

\* The label is you, human, user or me, in any case
IsAlias(name) == name.word \in {"you", "human", "user", "me"}

\* The speakers that may be taken for the human
HumanCandidates ==
    IF \E name \in Labels : IsAlias(name)
    THEN {name \in Labels : IsAlias(name)}
    ELSE {name \in Labels :
            \A other \in Labels : Cardinality(LinesOf(name)) <= Cardinality(LinesOf(other))}

\* The text of the message that begins on line k: the label line's text and
\* the non-blank lines up to the next label line, joined by newlines
RECURSIVE BlockText(_, _)
BlockText(k, text) ==
    IF k > Len(data) \/ data[k].label # NoLabel THEN text
    ELSE BlockText(k + 1, IF Trim(data[k].text) # <<>>
                          THEN Cat(text, Cat(Nl(1), data[k].text))
                          ELSE text)

MessageAt(k, human) ==
    [role |-> IF NameAt(k) = human THEN "user" ELSE "assistant",
     text |-> Trim(BlockText(k + 1, data[k].text)),
     timestamp |-> 0]

\* The messages of the log in line order, for a given human
RECURSIVE MessagesFrom(_, _)
MessagesFrom(k, human) ==
    IF k > Len(data) THEN <<>>
    ELSE IF k \in LabelLines /\ MessageAt(k, human).text # <<>>
    THEN <<MessageAt(k, human)>> \o MessagesFrom(k + 1, human)
    ELSE MessagesFrom(k + 1, human)

\* What parseTextChat returned for the uploaded log
TextMessages == IF uploadStatus = "success" THEN conversations[1].messages ELSE <<>>

\* C18: a log with fewer than two distinct speaker labels gives no message;
\* otherwise one speaker is the human, an alias when the log has one and else
\* a speaker with the fewest label lines; that speaker's messages have role
\* user, all others assistant, in line order, each with its continuation
\* lines.
C18_TextChatRoles ==
    uploadStatus # "none" =>
        IF Cardinality(Labels) < 2 THEN TextMessages = <<>>
        ELSE \E human \in HumanCandidates : TextMessages = MessagesFrom(1, human)

\* Two names and no alias: the one with fewer lines is the human, and a
\* message has taken a continuation line
C18_Witness ==
    /\ uploadStatus = "success"
    /\ Cardinality(Labels) = 2
    /\ \A name \in Labels : ~IsAlias(name)
    /\ Len(TextMessages) = 3
    /\ TextMessages[1].role = "assistant"
    /\ TextMessages[2].role = "user"
    /\ Len(TextMessages[2].text) > 1

-----------------------------------------------------------------------------
(* Claims about the chat (SpecChat).                                       *)

\* The step of a sendMessage invocation, and the invocation it records
Sends == Len(chatRequests') = Len(chatRequests) + 1
Sent == chatRequests'[Len(chatRequests')]

\* The number of characters of the trimmed chat input
SentLength == StrLen(TrimEnd(TrimStart(Sent.input)))

\* C19: a trimmed message of more than 10,000 characters issues no request
\* and leaves chatHistory as it was; one of exactly 10,000 characters is
\* accepted and appended to chatHistory.
C19_MessageCap ==
    [][Sends =>
          /\ SentLength > 10000 =>
                Sent.status = "refused" /\ Sent.messages = <<>> /\ chatHistory' = chatHistory
          /\ SentLength = 10000 =>
                /\ Sent.status = "pending"
                /\ Len(chatHistory') = Len(chatHistory) + 1
                /\ chatHistory'[Len(chatHistory')].role = "user"
                /\ StrLen(chatHistory'[Len(chatHistory')].content) = 10000
                /\ Sent.messages = chatHistory']_vars

\* A message of one character over the cap was refused and one of exactly
\* the cap, typed between blanks, was posted
C19_Witness ==
    /\ Len(chatRequests) = 2
    /\ StrLen(chatRequests[1].input) = 10001
    /\ chatRequests[1].status = "refused"
    /\ StrLen(chatRequests[2].input) = 10002
    /\ chatRequests[2].status = "done"
    /\ Len(chatHistory) = 3

-----------------------------------------------------------------------------
(* Claims about malformed replies (SpecReplies).                           *)

\* The awaited chunk, merge or timeline request of run r returns a reply in
\* this step
RepliesNow(r) ==
    /\ runs[r].pc \in {"chunk", "merge", "timeline"}
    /\ runs'[r].calls[Len(runs[r].calls)].reply.form \notin {"none", "error"}

\* The reply that returns to run r in this step
ReplyNow(r) == runs'[r].calls[Len(runs[r].calls)].reply

\* The reply becomes the run's profile in this step
BecomesProfile(r) ==
    /\ runs[r].pc \in {"chunk", "merge"}
    /\ runs'[r].profile.source = ReplyNow(r)

\* A reply that holds a JSON object
HoldsObject(reply) == reply.form \in {"object", "claiming", "fenced", "embedded"}

\* C20: no reply to a chunk, merge or timeline request aborts the run, and a
\* reply that does not hold a JSON object (prose, nothing, null, a number, a
\* string, an array) becomes a profile that wraps the raw text in
\* raw_extraction.
C20_MalformedNeverAborts ==
    [][\A r \in RunIds :
          RepliesNow(r) =>
              /\ runs'[r].pc # "failed"
              /\ BecomesProfile(r) /\ ~HoldsObject(ReplyNow(r)) =>
                    runs'[r].profile.kind = "raw"]_vars

-----------------------------------------------------------------------------
(* Claims about the order of a run's requests (Spec).                      *)

\* The requests a run over n chunks issues when none fails, in order: kind
\* and chunk number
CallOrder(n) ==
    [k \in 1..n |-> <<"chunk", k>>]
        \o (IF n > 1 THEN <<<<"merge", 0>>>> ELSE <<>>)
        \o <<<<"timeline", 0>>, <<"prompt", 0>>>>

\* The requests a run has issued so far, in order
IssuedOrder(run) ==
    [k \in 1..Len(run.calls) |-> <<run.calls[k].kind, run.calls[k].index>>]

\* The requests of a run that have not returned
InFlight(run) == {k \in 1..Len(run.calls) : run.calls[k].reply = NoReply}

-----------------------------------------------------------------------------
(* Claims about concurrent runs (SpecRuns).                                *)

\* A run that has started and has not ended: it is suspended at a request or
\* at the save
Active(run) == run.pc \in {"chunk", "merge", "timeline", "prompt", "save"}

ActiveRuns == {r \in RunIds : Active(runs[r])}

AtMostOneActive == Cardinality(ActiveRuns) <= 1

\* startExtraction is invoked while a run is active
StartsDuringRun == Len(runs') = Len(runs) + 1 /\ ActiveRuns # {}

\* Run r assigns companionProfile
WritesProfile(r) == runs[r].pc = "prompt" /\ runs'[r].pc = "save"

\* C22: at most one run is active at any time; an invocation of
\* startExtraction while a run is active leaves the abort flag as it is; and
\* a run assigns companionProfile only while no other run is active.
C22_OneRunAtATime ==
    /\ []AtMostOneActive
    /\ [][StartsDuringRun => extractionAborted' = extractionAborted]_vars
    /\ [][\A r \in RunIds : WritesProfile(r) => ActiveRuns \subseteq {r}]_vars

-----------------------------------------------------------------------------
(* Claims about the cancel operation of the program (Spec).                *)

\* Run r is suspended at the request of one of its chunks: Extracting(i/N)
Extracting(r) == runs[r].pc = "chunk"

\* Some operation of the program can raise the abort flag now
CanRaiseAbort == ENABLED (Next /\ extractionAborted' = TRUE)

\* No run has ended cancelled
NeverCancelled == \A r \in RunIds : runs[r].pc # "cancelled"

\* C23: in every state in which a run is suspended at a chunk request, an
\* operation of the program that sets the abort flag to true can be
\* triggered, so that the cancelled outcome is reachable from that state.
C23_CancelReachable ==
    \A r \in RunIds : Extracting(r) => CanRaiseAbort

-----------------------------------------------------------------------------
(* Claims about reading the library (SpecImport).                          *)

\* A list of records is ordered by savedAt, most recent first
MostRecentFirst(profiles) ==
    \A i, j \in 1..Len(profiles) : i < j => profiles[i].savedAt >= profiles[j].savedAt

\* The records of a list
Listed(profiles) == {profiles[k] : k \in 1..Len(profiles)}

\* C24 as claimed: every read of the profile list, that of loadAllProfiles
\* itself included, yields the records ordered by savedAt, most recent
\* first.
C24_EveryReadSorted ==
    \A profiles \in loadAllProfiles : MostRecentFirst(profiles)

\* C24, amended: whatever order loadAllProfiles returns the records in, the
\* list renderLibrary shows holds the same records ordered by savedAt, most
\* recent first, and the record loadFromLibrary and exportFromLibrary find
\* for the id of a stored record is that record.
C24_ListingSorted ==
    \A profiles \in loadAllProfiles :
        /\ MostRecentFirst(renderLibrary(profiles))
        /\ Len(renderLibrary(profiles)) = Len(profiles)
        /\ Listed(renderLibrary(profiles)) = library
        /\ \A stored \in library : Find(profiles, stored.id) = <<stored>>

\* Two records are stored, and loadAllProfiles can return them in an order
\* that renderLibrary changes
C24_Witness ==
    /\ Cardinality(library) >= 2
    /\ \E profiles \in loadAllProfiles : renderLibrary(profiles) # profiles

-----------------------------------------------------------------------------
(* Claims about the scan of an imported profile (SpecScan).                *)

\* The strings and numbers of a value, each with its position: the
\* properties and indexes that lead to it
RECURSIVE Leaves(_, _)
Leaves(value, position) ==
    IF value.type \in {"array", "object"}
    THEN UNION {Leaves(value.items[k],
                       Append(position,
                              IF value.type = "array" THEN Step("index", "", k - 1)
                              ELSE Step("key", value.keys[k], 0))) :
                k \in 1..Len(value.items)}
    ELSE {[position |-> position, leaf |-> value]}

\* The dotted / indexed path of a position: a.b[0].c
RECURSIVE DottedPath(_)
DottedPath(position) ==
    IF position = <<>> THEN <<>>
    ELSE LET front == SubSeq(position, 1, Len(position) - 1)
             last == position[Len(position)]
         IN  DottedPath(front) \o
             (IF last.kind = "index" THEN <<IndexPiece(last.index)>>
              ELSE (IF front # <<>> THEN <<".">> ELSE <<>>) \o KeyPieces(last.key))

\* The threats of the scan that were found in a string
ThreatsIn(leaf) == {k \in 1..Len(dialog.threats) : dialog.threats[k].matched = leaf.id}

Scanned == dialog.kind \in {"warning", "continuity"}

\* C25: when importProfile has scanned a profile, every string of more than
\* 30 characters at any depth that matches a pattern has exactly one threat,
\* tagged with the dotted / indexed path of the string; the top-level
\* systemPrompt, whatever its length, has exactly one, tagged systemPrompt;
\* a string that matches no pattern has none.
C25_EveryLongStringScanned ==
    Scanned =>
        \A l \in Leaves(data, <<>>) :
            LET field == IF l.position = <<Step("key", "systemPrompt", 0)>>
                         THEN <<"systemPrompt">> ELSE DottedPath(l.position)
                due == /\ l.leaf.type = "string"
                       /\ l.leaf.suspicious
                       /\ \/ l.leaf.length > 30
                          \/ l.position = <<Step("key", "systemPrompt", 0)>>
            IN  /\ due => Cardinality(ThreatsIn(l.leaf)) = 1
                /\ l.leaf.type = "string" =>
                      \A k \in ThreatsIn(l.leaf) :
                          dialog.threats[k].field = field /\ l.leaf.suspicious

-----------------------------------------------------------------------------
(* Claims about the candidates of a turn (SpecTurns).                      *)

\* The text the claim selects for a turn with candidates: that of the
\* candidate whose id is primary_candidate_id when there is one, that of the
\* first candidate otherwise
SelectedText(turn) ==
    LET flagged == {j \in 1..Len(turn.candidates) :
                        turn.candidates[j].candidate_id = turn.primary_candidate_id}
    IN  IF flagged # {}
        THEN turn.candidates[CHOOSE j \in flagged : \A i \in flagged : j <= i].raw_content
        ELSE turn.candidates[1].raw_content

\* The text of the message a turn gives, if it gives one
SelectedMessage(turn) ==
    LET text == IF turn.candidates # <<>> THEN SelectedText(turn) ELSE turn.text
    IN  IF Trim(text) # <<>> THEN <<Trim(text)>> ELSE <<>>

\* C26: the messages parseCharacterAI extracts are, turn by turn, the texts
\* of the flagged candidate when a candidate has the id in
\* primary_candidate_id and of the first candidate otherwise, also when
\* primary_candidate_id is set and no candidate has it; a turn is dropped
\* only when that text is blank.
C26_PrimaryOrFirstCandidate ==
    Uploaded =>
        [k \in 1..Len(conversations[1].messages) |-> conversations[1].messages[k].text]
            = Flatten([k \in 1..Len(data.items) |-> SelectedMessage(data.items[k])])

-----------------------------------------------------------------------------
(* Claims about the size of the sampled text (SpecChunk).                  *)

\* C27: whenever sampling is applied, the text it builds (early segment,
\* markers, sampled middle, recent segment) has at most MAX_TOTAL_CHARS
\* characters.
C27_SampledWithinCeiling ==
    \A r \in RunIds :
        runs[r].sample.applied => StrLen(runs[r].sample.formatted) <= MAX_TOTAL_CHARS

-----------------------------------------------------------------------------
(* Claims about imports and the records already stored (SpecSave).         *)

\* C28: an import never replaces or removes a stored record: every record
\* stored before the import is stored after it, under the same id and with
\* the same profile.
C28_ImportKeepsRecords ==
    [][Imports =>
          \A stored \in library :
              \E kept \in library' :
                  kept.id = stored.id /\ kept.profile = stored.profile]_vars

-----------------------------------------------------------------------------
(* Claims about the selection after several uploads (SpecUploads).         *)

\* Every selected id is the id of a conversation of the current list
SelectionIsCurrent == selectedConvoIds \subseteq ConvoIds

\* Every extraction that was started has a message to extract from
NoEmptyExtraction == \A r \in RunIds : runs[r].allMessages # <<>>

\* C29: after any sequence of uploads, toggles, selectAll and selectNone,
\* every selected id is the id of a conversation of the current list, and
\* startExtraction never issues its request over an empty set of messages.
C29_SelectionIsCurrent == SelectionIsCurrent /\ NoEmptyExtraction

-----------------------------------------------------------------------------
(* Claims about the tree walk on any mapping (SpecWalk).                   *)

\* The mapping of the one conversation of the uploaded export
WalkedMapping == data.items[1].mapping

\* No id occurs twice among the ids the loop visits
VisitsOnce(path) ==
    \A i, j \in 1..Len(path) : path[i] = path[j] => i = j

\* C30: for every mapping, also one in which a children list refers back
\* to a visited node or to the node itself, the tree walk of
\* parseConversations comes to an end (the upload handler returns) and
\* visits each node at most once.
C30_WalkTerminates ==
    uploadStatus # "none" =>
        /\ uploadStatus # "reading"
        /\ WalkEnds(WalkedMapping)
        /\ VisitsOnce(Visits(WalkedMapping))

=============================================================================
